---------------------------- MODULE Spec2Model ----------------------------
(***************************************************************************)
(* A model of the arcade game of src/js/app.js driven by the loop of       *)
(* src/js/engine.js: the entities (enemies, player, collectible), the      *)
(* scoring engine GameProperties, the keyup and mousedown listeners and    *)
(* the tick of updateEntities.                                             *)
(*                                                                         *)
(* Numbers.  JavaScript numbers are reals here.  Every length (x, y,       *)
(* widths, tile sizes) is held in units of 1/Res pixel and every time      *)
(* delta in units of 1/Res second, so that x + speed * dt is exact for     *)
(* every integer speed.  Half widths (31/2, 95/2) are avoided by comparing *)
(* doubled values in collidingWith.  The fade counter of a popup is held   *)
(* in units of 1/Res and its product with dt is rounded to the nearest     *)
(* unit, ties to even, as IEEE arithmetic does at its smallest scale.      *)
(***************************************************************************)
EXTENDS Integers, Sequences, FiniteSets, TLC

VARIABLES
    gameProperties,      \* the global GameProperties object
    player,              \* the global Player object
    allEnemies,          \* the global array of Enemy objects
    collectibleManager,  \* the global CollectibleManager object
    calls                \* history: the calls made by the last handler, in order

vars == <<gameProperties, player, allEnemies, collectibleManager, calls>>

----------------------------------------------------------------------------
(* Bounds of the model *)

\* units per pixel and per second
Res == 2
\* number of enemies in allEnemies (the game builds five)
NumEnemies == 1
\* handlers of the game specification run only while |currentGamePoints| <= MaxPoints
MaxPoints == 20
\* handlers run only while consecutiveSuccesses <= MaxSuccesses
MaxSuccesses == 1
\* handlers of the game specification run only while at most MaxWalked tiles are recorded
MaxWalked == 2

\* SpecGems: the largest currentGamePoints from which the game goes on
MaxGemsPoints == 30

\* SpecPopups: no key is released once more than MaxPopups popups are listed
MaxPopups == 2

\* SpecTiles: the largest currentGamePoints from which the game goes on
MaxTilesPoints == 340

\* SpecTiles: the largest bestGamePoints from which the game goes on
MaxTilesBest == 0

\* SpecTiles: the most points lost in the water from which the game goes on
MaxTilesDebt == 0

----------------------------------------------------------------------------
(* Program constants *)

HORIZONTAL_TILE_WIDTH == 101
VISIBLE_VERTICAL_TILE_HEIGHT == 83
CANVAS_WIDTH == 505
ENEMY_WIDTH == 86
ENEMY_VERTICAL_BUFFER == 57
PLAYER_WIDTH == 31
PLAYER_VERTICAL_BUFFER == 48
PLAYER_START_X == 202
PLAYER_START_Y == 380
COLLECTIBLE_WIDTH == 95
COLLECTIBLE_VERTICAL_BUFFER == 57
POPUP_COUNTER == 100
TILE_POINTS == 10
ALL_TILES_POINTS == 200
WATER_POINTS == -30
USABLE_GAME_ROWS == 3
USABLE_GAME_COLUMNS == 5

TileW == HORIZONTAL_TILE_WIDTH * Res
TileH == VISIBLE_VERTICAL_TILE_HEIGHT * Res

characterImages ==
    << "images/char-boy.png", "images/char-cat-girl.png", "images/char-horn-girl.png",
       "images/char-pink-girl.png", "images/char-princess-girl.png" >>

availableCollectibles ==
    << [sprite |-> "images/gem-blue.png", points |-> 25],
       [sprite |-> "images/gem-orange.png", points |-> 50],
       [sprite |-> "images/gem-green.png", points |-> 75] >>

----------------------------------------------------------------------------
(* MovableItem: geometry *)

\* new MovableItem(x, y, width, verticalBuffer, sprite), lengths already in units
MovableItem(x, y, width, verticalBuffer, sprite) ==
    [ x |-> x, y |-> y, width |-> width, sprite |-> sprite,
      startingXPosition |-> x, startingYPosition |-> y,
      rowAdjust |-> verticalBuffer ]

\* twice MovableItem.midPoint()
midPoint(item) == 2 * item.x + TileW

\* twice MovableItem.visibleLeft(); twice halfVisibleWidth is width
visibleLeft(item) == midPoint(item) - item.width

\* twice MovableItem.visibleRight()
visibleRight(item) == midPoint(item) + item.width

onRow(item) ==
    LET adjustedY == item.y - item.rowAdjust
    IN  IF adjustedY # 0 THEN adjustedY \div TileH ELSE 0

onColumn(item) ==
    IF item.x # 0 THEN item.x \div TileW ELSE 0

\* mutant of collidingWith: the comparisons are not strict
collidingWith_TouchCounts(this, item) ==
    /\ onRow(this) = onRow(item)
    /\ \/ /\ visibleLeft(item) <= visibleRight(this)
          /\ visibleLeft(item) >= visibleLeft(this)
       \/ /\ visibleRight(item) <= visibleRight(this)
          /\ visibleRight(item) >= visibleLeft(this)

\* this.collidingWith(item); the undefined returned for different rows is falsy
collidingWith(this, item) ==
    /\ onRow(this) = onRow(item)
    /\ \/ /\ visibleLeft(item) < visibleRight(this)
          /\ visibleLeft(item) > visibleLeft(this)
       \/ /\ visibleRight(item) < visibleRight(this)
          /\ visibleRight(item) > visibleLeft(this)


----------------------------------------------------------------------------
(* The world a handler works on: the four global objects and the call      *)
(* history.  Every method below takes the world (or the object it reads)   *)
(* and returns the world (or object) it leaves.                            *)

World(gp, p, es, cm, cs) ==
    [ gp |-> gp, player |-> p, allEnemies |-> es, cm |-> cm, calls |-> cs ]

\* records that the handler called fn with the integer argument arg
Call(w, fn, arg) == [w EXCEPT !.calls = Append(@, [fn |-> fn, arg |-> arg])]

----------------------------------------------------------------------------
(* Enemy *)

\* what Math.floor(Math.random() * 3) can give
EnemyRows == 0 .. 2

\* what Math.floor(Math.random() * 300 + 100) can give
AllSpeeds == 100 .. 399

_leftMostXPosition == (- HORIZONTAL_TILE_WIDTH - 2) * Res

_rightMostXPosition == (CANVAS_WIDTH + 2) * Res

\* generateYPosition() with Math.floor(Math.random() * 3) = row
generateYPosition(row) == (row * VISIBLE_VERTICAL_TILE_HEIGHT + ENEMY_VERTICAL_BUFFER) * Res

isReversedEnemy(gp, enemy) == gp.alternateDirectionsOn /\ onRow(enemy) = 1

\* the sprite 'images/enemy-bug-<colour>.png' or 'images/enemy-bug-<colour>-reversed.png'
\* is held as its colour and whether '-reversed' occurs in it
\* mutant of reverseEnemyImage: '-reversed' is added and never taken out
reverseEnemyImage_OnlyAdds(enemy) ==
    [enemy EXCEPT !.sprite.reversed = TRUE]


reverseEnemyImage(enemy) ==
    IF enemy.sprite.reversed
    THEN [enemy EXCEPT !.sprite.reversed = FALSE]
    ELSE [enemy EXCEPT !.sprite.reversed = TRUE]

\* mutant of setSpriteBySpeed: the yellow band starts above 250
setSpriteBySpeed_YellowAbove(gp, enemy) ==
    LET e1 == IF enemy.speed >= 300 THEN [enemy EXCEPT !.sprite = [colour |-> "green", reversed |-> FALSE]]
              ELSE IF enemy.speed > 250 THEN [enemy EXCEPT !.sprite = [colour |-> "yellow", reversed |-> FALSE]]
              ELSE IF enemy.speed >= 200 THEN [enemy EXCEPT !.sprite = [colour |-> "red", reversed |-> FALSE]]
              ELSE IF enemy.speed >= 150 THEN [enemy EXCEPT !.sprite = [colour |-> "purple", reversed |-> FALSE]]
              ELSE IF enemy.speed >= 100 THEN [enemy EXCEPT !.sprite = [colour |-> "blue", reversed |-> FALSE]]
              ELSE enemy
    IN  IF isReversedEnemy(gp, e1) THEN reverseEnemyImage(e1) ELSE e1

\* mutant of setSpriteBySpeed: the image of the speed is never reversed
setSpriteBySpeed_NeverReversed(gp, enemy) ==
    IF enemy.speed >= 300 THEN [enemy EXCEPT !.sprite = [colour |-> "green", reversed |-> FALSE]]
    ELSE IF enemy.speed >= 250 THEN [enemy EXCEPT !.sprite = [colour |-> "yellow", reversed |-> FALSE]]
    ELSE IF enemy.speed >= 200 THEN [enemy EXCEPT !.sprite = [colour |-> "red", reversed |-> FALSE]]
    ELSE IF enemy.speed >= 150 THEN [enemy EXCEPT !.sprite = [colour |-> "purple", reversed |-> FALSE]]
    ELSE IF enemy.speed >= 100 THEN [enemy EXCEPT !.sprite = [colour |-> "blue", reversed |-> FALSE]]
    ELSE enemy

setSpriteBySpeed(gp, enemy) ==
    LET e1 == IF enemy.speed >= 300 THEN [enemy EXCEPT !.sprite = [colour |-> "green", reversed |-> FALSE]]
              ELSE IF enemy.speed >= 250 THEN [enemy EXCEPT !.sprite = [colour |-> "yellow", reversed |-> FALSE]]
              ELSE IF enemy.speed >= 200 THEN [enemy EXCEPT !.sprite = [colour |-> "red", reversed |-> FALSE]]
              ELSE IF enemy.speed >= 150 THEN [enemy EXCEPT !.sprite = [colour |-> "purple", reversed |-> FALSE]]
              ELSE IF enemy.speed >= 100 THEN [enemy EXCEPT !.sprite = [colour |-> "blue", reversed |-> FALSE]]
              ELSE enemy
    IN  IF isReversedEnemy(gp, e1) THEN reverseEnemyImage(e1) ELSE e1

\* setSpeed() with Math.floor(Math.random() * 300 + 100) = speed
setSpeed(gp, enemy, speed) == setSpriteBySpeed(gp, [enemy EXCEPT !.speed = speed])

\* mutant of Enemy_resetPosition: x is chosen for the row the enemy leaves
Enemy_resetPosition_OldRow(gp, enemy, row) ==
    LET e1 == IF isReversedEnemy(gp, enemy)
              THEN [enemy EXCEPT !.x = _rightMostXPosition]
              ELSE [enemy EXCEPT !.x = enemy.startingXPosition]
    IN  [e1 EXCEPT !.y = generateYPosition(row)]

Enemy_resetPosition(gp, enemy, row) ==
    LET e1 == [enemy EXCEPT !.y = generateYPosition(row)]
    IN  IF isReversedEnemy(gp, e1)
        THEN [e1 EXCEPT !.x = _rightMostXPosition]
        ELSE [e1 EXCEPT !.x = e1.startingXPosition]

Enemy_reset(gp, enemy, row, speed) ==
    setSpeed(gp, Enemy_resetPosition(gp, enemy, row), speed)

\* whether update() calls reset()
Enemy_updateResets(gp, enemy) ==
    IF isReversedEnemy(gp, enemy)
    THEN enemy.x < _leftMostXPosition
    ELSE enemy.x > _rightMostXPosition

\* mutant of Enemy_update: a reversed enemy is reset as soon as it touches the
\* left edge of the canvas
Enemy_update_ResetsAtZero(gp, enemy, dt, row, speed) ==
    IF isReversedEnemy(gp, enemy)
    THEN LET e1 == IF enemy.x < 0
                   THEN Enemy_reset(gp, enemy, row, speed) ELSE enemy
         IN  [e1 EXCEPT !.x = @ - (e1.speed * dt)]
    ELSE LET e1 == IF enemy.x > _rightMostXPosition
                   THEN Enemy_reset(gp, enemy, row, speed) ELSE enemy
         IN  [e1 EXCEPT !.x = @ + (e1.speed * dt)]

\* update(dt); row and speed are the random draws of a reset
\* mutant of Enemy_update: a reversed enemy moves to the right like the others
Enemy_update_AllRight(gp, enemy, dt, row, speed) ==
    IF isReversedEnemy(gp, enemy)
    THEN LET e1 == IF enemy.x < _leftMostXPosition
                   THEN Enemy_reset(gp, enemy, row, speed) ELSE enemy
         IN  [e1 EXCEPT !.x = @ + (e1.speed * dt)]
    ELSE LET e1 == IF enemy.x > _rightMostXPosition
                   THEN Enemy_reset(gp, enemy, row, speed) ELSE enemy
         IN  [e1 EXCEPT !.x = @ + (e1.speed * dt)]


Enemy_update(gp, enemy, dt, row, speed) ==
    IF isReversedEnemy(gp, enemy)
    THEN LET e1 == IF enemy.x < _leftMostXPosition
                   THEN Enemy_reset(gp, enemy, row, speed) ELSE enemy
         IN  [e1 EXCEPT !.x = @ - (e1.speed * dt)]
    ELSE LET e1 == IF enemy.x > _rightMostXPosition
                   THEN Enemy_reset(gp, enemy, row, speed) ELSE enemy
         IN  [e1 EXCEPT !.x = @ + (e1.speed * dt)]

\* new Enemy(); startingYPosition is never read for an enemy and is left out
Enemy(gp, row, speed) ==
    setSpeed(gp,
             [ x |-> _leftMostXPosition, y |-> generateYPosition(row),
               width |-> ENEMY_WIDTH * Res,
               sprite |-> [colour |-> "blank", reversed |-> FALSE],
               startingXPosition |-> _leftMostXPosition,
               rowAdjust |-> ENEMY_VERTICAL_BUFFER * Res, speed |-> 0 ],
             speed)

----------------------------------------------------------------------------
(* Collectible and CollectibleManager *)

\* the random draws of resetCollectible: selection, column and row
GemDraw(sel, col, row) == [sel |-> sel, col |-> col, row |-> row]

AllGemDraws ==
    { GemDraw(sel, col, row) : sel \in 1 .. Len(availableCollectibles),
                               col \in 0 .. USABLE_GAME_COLUMNS - 1,
                               row \in 0 .. USABLE_GAME_ROWS - 1 }

Collectible(x, y, points, sprite) ==
    [ MovableItem(x, y, COLLECTIBLE_WIDTH * Res, COLLECTIBLE_VERTICAL_BUFFER * Res, sprite)
        EXCEPT !.sprite = sprite ] @@ [points |-> points]

\* mutant of resetCollectible: the old collectible is not popped
resetCollectible_NoPop(w, draw) ==
    LET sprite == availableCollectibles[draw.sel].sprite
        points == availableCollectibles[draw.sel].points
        x == draw.col * TileW
        y == (draw.row + 1) * TileH
    IN  Call([w EXCEPT !.cm.currentCollectibles = Append(@, Collectible(x, y, points, sprite))],
             "resetCollectible", points)

\* mutant of resetCollectible: y is the row drawn times the tile height
resetCollectible_RowFromZero(w, draw) ==
    LET sprite == availableCollectibles[draw.sel].sprite
        points == availableCollectibles[draw.sel].points
        x == draw.col * TileW
        y == draw.row * TileH
        popped == IF Len(w.cm.currentCollectibles) # 0
                  THEN SubSeq(w.cm.currentCollectibles, 1, Len(w.cm.currentCollectibles) - 1)
                  ELSE w.cm.currentCollectibles
    IN  Call([w EXCEPT !.cm.currentCollectibles = Append(popped, Collectible(x, y, points, sprite))],
             "resetCollectible", points)

resetCollectible(w, draw) ==
    LET sprite == availableCollectibles[draw.sel].sprite
        points == availableCollectibles[draw.sel].points
        x == draw.col * TileW
        y == (draw.row + 1) * TileH
        popped == IF Len(w.cm.currentCollectibles) # 0
                  THEN SubSeq(w.cm.currentCollectibles, 1, Len(w.cm.currentCollectibles) - 1)
                  ELSE w.cm.currentCollectibles
    IN  Call([w EXCEPT !.cm.currentCollectibles = Append(popped, Collectible(x, y, points, sprite))],
             "resetCollectible", points)

CollectibleManager_update(w, draw) ==
    IF w.gp.collectiblesOn /\ Len(w.cm.currentCollectibles) = 0
    THEN resetCollectible(w, draw)
    ELSE w

removeCollectibles(w) == [w EXCEPT !.cm.currentCollectibles = << >>]

----------------------------------------------------------------------------
(* ShowPoints and GameProperties *)

Max(a, b) == IF a >= b THEN a ELSE b

\* n / d rounded to the nearest integer, ties to even (d > 0)
RoundHalfEven(n, d) ==
    LET q == n \div d
        r == n % d
    IN  IF 2 * r < d THEN q
        ELSE IF 2 * r > d THEN q + 1
        ELSE IF q % 2 = 0 THEN q ELSE q + 1

ShowPoints(row, column, points) ==
    [ row |-> row, column |-> column, points |-> points, counter |-> POPUP_COUNTER * Res ]

\* this.counter -= this.counter * dt
ShowPoints_update(showPoint, dt) ==
    [showPoint EXCEPT !.counter = @ - RoundHalfEven(@ * dt, Res)]

_initializeWalkingArray(gp) ==
    [gp EXCEPT !.walkedSuccess = [i \in 1 .. 3 |-> << >>]]

\* new GameProperties()
GameProperties ==
    _initializeWalkingArray(
        [ pauseGame |-> TRUE, currentGamePoints |-> 0, bestGamePoints |-> 0,
          consecutiveSuccesses |-> 0, showInfo |-> FALSE, showPoints |-> << >>,
          characterSelection |-> 0,
          colouredTileModeOn |-> FALSE, collectiblesOn |-> FALSE,
          alternateDirectionsOn |-> FALSE, walkedSuccess |-> << >> ])

MovableItem_resetPosition(item) ==
    [item EXCEPT !.x = item.startingXPosition, !.y = item.startingYPosition]

\* mutant of reset: the best score is overwritten without the comparison
reset_Overwrite(w) ==
    LET gp1 == [w.gp EXCEPT !.bestGamePoints = w.gp.currentGamePoints]
        gp2 == [gp1 EXCEPT !.consecutiveSuccesses = 0, !.currentGamePoints = 0]
    IN  Call([w EXCEPT !.gp = _initializeWalkingArray(gp2),
                       !.player = MovableItem_resetPosition(w.player)],
             "reset", 0)

\* mutant of reset: the success counter is left as it is
reset_KeepsSuccesses(w) ==
    LET gp1 == IF w.gp.currentGamePoints > w.gp.bestGamePoints
               THEN [w.gp EXCEPT !.bestGamePoints = w.gp.currentGamePoints]
               ELSE w.gp
        gp2 == [gp1 EXCEPT !.currentGamePoints = 0]
    IN  Call([w EXCEPT !.gp = _initializeWalkingArray(gp2),
                       !.player = MovableItem_resetPosition(w.player)],
             "reset", 0)

\* mutant of reset: the player is not put back
reset_LeavesPlayer(w) ==
    LET gp1 == IF w.gp.currentGamePoints > w.gp.bestGamePoints
               THEN [w.gp EXCEPT !.bestGamePoints = w.gp.currentGamePoints]
               ELSE w.gp
        gp2 == [gp1 EXCEPT !.consecutiveSuccesses = 0, !.currentGamePoints = 0]
    IN  Call([w EXCEPT !.gp = _initializeWalkingArray(gp2)], "reset", 0)

\* mutant of reset: the comparison with the best score is turned round
reset_BanksLower(w) ==
    LET gp1 == IF w.gp.currentGamePoints < w.gp.bestGamePoints
               THEN [w.gp EXCEPT !.bestGamePoints = w.gp.currentGamePoints]
               ELSE w.gp
        gp2 == [gp1 EXCEPT !.consecutiveSuccesses = 0, !.currentGamePoints = 0]
    IN  Call([w EXCEPT !.gp = _initializeWalkingArray(gp2),
                       !.player = MovableItem_resetPosition(w.player)],
             "reset", 0)


reset(w) ==
    LET gp1 == IF w.gp.currentGamePoints > w.gp.bestGamePoints
               THEN [w.gp EXCEPT !.bestGamePoints = w.gp.currentGamePoints]
               ELSE w.gp
        gp2 == [gp1 EXCEPT !.consecutiveSuccesses = 0, !.currentGamePoints = 0]
    IN  Call([w EXCEPT !.gp = _initializeWalkingArray(gp2),
                       !.player = MovableItem_resetPosition(w.player)],
             "reset", 0)

\* mutant of toggleColouredTileMode: the flag is flipped without reset()
toggleColouredTileMode_NoReset(w) ==
    [w EXCEPT !.gp.colouredTileModeOn = ~ @]

toggleColouredTileMode(w) ==
    reset([w EXCEPT !.gp.colouredTileModeOn = ~ @])

\* mutant of toggleCollectiblesMode: the collectible stays when the mode goes off
toggleCollectiblesMode_KeepsGem(w) ==
    reset([w EXCEPT !.gp.collectiblesOn = ~ @])

\* mutant of toggleCollectiblesMode: the score is kept
toggleCollectiblesMode_KeepsScore(w) ==
    LET w1 == [w EXCEPT !.gp.collectiblesOn = ~ @]
    IN  IF ~ w1.gp.collectiblesOn THEN removeCollectibles(w1) ELSE w1

toggleCollectiblesMode(w) ==
    LET w1 == [w EXCEPT !.gp.collectiblesOn = ~ @]
        w2 == IF ~ w1.gp.collectiblesOn THEN removeCollectibles(w1) ELSE w1
    IN  reset(w2)

\* mutant of toggleAlternateDirectionsMode: the images are left as they are
toggleAlternateDirectionsMode_NoImage(w) ==
    reset([w EXCEPT !.gp.alternateDirectionsOn = ~ @])

toggleAlternateDirectionsMode(w) ==
    LET w1 == [w EXCEPT !.gp.alternateDirectionsOn = ~ @]
        w2 == [w1 EXCEPT !.allEnemies =
                   [i \in DOMAIN @ |-> IF onRow(@[i]) = 1 THEN reverseEnemyImage(@[i]) ELSE @[i]]]
    IN  reset(w2)

playerCollidedWithEnemy(w) == reset(Call(w, "playerCollidedWithEnemy", 0))

\* mutant of addPoints: the best score follows the current score as it grows
addPoints_TracksBest(w, row, column, points) ==
    Call([w EXCEPT !.gp.currentGamePoints = @ + points,
                   !.gp.bestGamePoints = Max(@, w.gp.currentGamePoints + points),
                   !.gp.showPoints = Append(@, ShowPoints(row, column, points))],
         "addPoints", points)

addPoints(w, row, column, points) ==
    Call([w EXCEPT !.gp.currentGamePoints = @ + points,
                   !.gp.showPoints = Append(@, ShowPoints(row, column, points))],
         "addPoints", points)

playerCollectedItem(w, row, column, points) ==
    addPoints(Call(w, "playerCollectedItem", points), row, column, points)

\* indexOf(column) == -1 on the array walkedSuccess[row]
NotWalked(gp, row, column) ==
    \A k \in 1 .. Len(gp.walkedSuccess[row + 1]) : gp.walkedSuccess[row + 1][k] # column

\* mutant of playerWalkedOnStoneTile: the tile is scored but not recorded
playerWalkedOnStoneTile_NoRecord(w, row, column) ==
    IF w.gp.colouredTileModeOn
    THEN IF NotWalked(w.gp, row, column)
         THEN addPoints(w, row, column, TILE_POINTS)
         ELSE w
    ELSE [w EXCEPT !.gp = _initializeWalkingArray(w.gp)]

\* mutant of playerWalkedOnStoneTile: the record is not cleared with the bonus
playerWalkedOnStoneTile_KeepsRecord(w, row, column) ==
    IF w.gp.colouredTileModeOn
    THEN LET w1 == IF NotWalked(w.gp, row, column)
                   THEN [addPoints(w, row, column, TILE_POINTS)
                            EXCEPT !.gp.walkedSuccess[row + 1] = Append(@, column)]
                   ELSE w
         IN  IF /\ Len(w1.gp.walkedSuccess[1]) = 5
                /\ Len(w1.gp.walkedSuccess[2]) = 5
                /\ Len(w1.gp.walkedSuccess[3]) = 5
             THEN addPoints(w1, row, column, ALL_TILES_POINTS)
             ELSE w1
    ELSE [w EXCEPT !.gp = _initializeWalkingArray(w.gp)]

\* mutant of playerWalkedOnStoneTile: the tile is recorded without the lookup
playerWalkedOnStoneTile_NoLookup(w, row, column) ==
    IF w.gp.colouredTileModeOn
    THEN LET w1 == [addPoints(w, row, column, TILE_POINTS)
                       EXCEPT !.gp.walkedSuccess[row + 1] = Append(@, column)]
         IN  IF /\ Len(w1.gp.walkedSuccess[1]) = 5
                /\ Len(w1.gp.walkedSuccess[2]) = 5
                /\ Len(w1.gp.walkedSuccess[3]) = 5
             THEN LET w2 == addPoints(w1, row, column, ALL_TILES_POINTS)
                  IN  [w2 EXCEPT !.gp = _initializeWalkingArray(w2.gp)]
             ELSE w1
    ELSE [w EXCEPT !.gp = _initializeWalkingArray(w.gp)]


playerWalkedOnStoneTile(w, row, column) ==
    IF w.gp.colouredTileModeOn
    THEN LET w1 == IF NotWalked(w.gp, row, column)
                   THEN [addPoints(w, row, column, TILE_POINTS)
                            EXCEPT !.gp.walkedSuccess[row + 1] = Append(@, column)]
                   ELSE w
         IN  IF /\ Len(w1.gp.walkedSuccess[1]) = 5
                /\ Len(w1.gp.walkedSuccess[2]) = 5
                /\ Len(w1.gp.walkedSuccess[3]) = 5
             THEN LET w2 == addPoints(w1, row, column, ALL_TILES_POINTS)
                  IN  [w2 EXCEPT !.gp = _initializeWalkingArray(w2.gp)]
             ELSE w1
    ELSE [w EXCEPT !.gp = _initializeWalkingArray(w.gp)]

pointsTrackingModesOn(gp) == gp.colouredTileModeOn \/ gp.collectiblesOn

\* mutant of playerReachedTopRow: a success is counted in every mode
playerReachedTopRow_AlwaysCounts(w, column) ==
    LET w1 == Call(w, "playerReachedTopRow", column)
        w2 == [w1 EXCEPT !.gp.consecutiveSuccesses = @ + 1]
    IN  IF pointsTrackingModesOn(w2.gp)
        THEN addPoints(w2, 0, column, WATER_POINTS)
        ELSE w2

playerReachedTopRow(w, column) ==
    LET w1 == Call(w, "playerReachedTopRow", column)
    IN  IF pointsTrackingModesOn(w1.gp)
        THEN addPoints(w1, 0, column, WATER_POINTS)
        ELSE [w1 EXCEPT !.gp.consecutiveSuccesses = @ + 1]

getSelectedCharacterImageURL(gp) == characterImages[gp.characterSelection + 1]

\* GameProperties.update(dt)
GameProperties_update(w, dt) ==
    LET kept == SelectSeq(w.gp.showPoints, LAMBDA sp : ~ (sp.counter <= 0))
        w1 == [w EXCEPT !.gp.showPoints = kept]
        w2 == IF w1.gp.pauseGame
              THEN [w1 EXCEPT !.player.sprite = getSelectedCharacterImageURL(w1.gp)]
              ELSE w1
    IN  [w2 EXCEPT !.gp.showPoints = [i \in DOMAIN @ |-> ShowPoints_update(@[i], dt)]]

\* GameProperties.handleInput(input); input is "" for undefined
GameProperties_handleInput(w, input) ==
    CASE input = "left" ->
            IF w.gp.characterSelection > 0
            THEN [w EXCEPT !.gp.characterSelection = @ - 1] ELSE w
      [] input = "right" ->
            IF w.gp.characterSelection < Len(characterImages) - 1
            THEN [w EXCEPT !.gp.characterSelection = @ + 1] ELSE w
      [] input = "one" -> toggleColouredTileMode(w)
      [] input = "two" -> toggleCollectiblesMode(w)
      [] input = "three" -> toggleAlternateDirectionsMode(w)
      [] OTHER -> w

----------------------------------------------------------------------------
(* Player *)

\* new Player(); the sprite argument is missing, RenderableItem sets the blank tile
Player ==
    MovableItem(PLAYER_START_X * Res, PLAYER_START_Y * Res, PLAYER_WIDTH * Res,
                PLAYER_VERTICAL_BUFFER * Res, "images/blank-tile.png")

\* whether some enemy collides with the player
EnemyCollision(w) ==
    \E i \in DOMAIN w.allEnemies : collidingWith(w.allEnemies[i], w.player)

\* mutant of _checkEnemyCollisions: a collision is not reported
_checkEnemyCollisions_Unreported(w) == w

_checkEnemyCollisions(w) ==
    IF EnemyCollision(w) THEN playerCollidedWithEnemy(w) ELSE w

\* mutant of Pickup: the collectible is picked up from anywhere on its row
Pickup_RowOnly(w) ==
    /\ Len(w.cm.currentCollectibles) > 0
    /\ onRow(w.cm.currentCollectibles[1]) = onRow(w.player)

\* whether the collectible check of update() picks the collectible up
Pickup(w) ==
    /\ Len(w.cm.currentCollectibles) > 0
    /\ collidingWith(w.cm.currentCollectibles[1], w.player)

\* the loop runs over the length read before it (at most one collectible)
_checkCollectibleCollisions(w, draw) ==
    IF Pickup(w)
    THEN resetCollectible(
             playerCollectedItem(w, onRow(w.player), onColumn(w.player),
                                 w.cm.currentCollectibles[1].points),
             draw)
    ELSE w

_checkPlayerLocation(w) ==
    IF onRow(w.player) < 3
    THEN playerWalkedOnStoneTile(w, onRow(w.player), onColumn(w.player))
    ELSE w

\* mutant of Player.update(): the enemy collision check runs last
Player_update_CollisionLast(w, draw) ==
    _checkEnemyCollisions(_checkPlayerLocation(_checkCollectibleCollisions(w, draw)))

\* Player.update()
Player_update(w, draw) ==
    _checkPlayerLocation(_checkCollectibleCollisions(_checkEnemyCollisions(w), draw))

_moveLeft(w) ==
    IF w.player.x >= TileW THEN [w EXCEPT !.player.x = @ - TileW] ELSE w

\* mutant of _moveRight: the right edge of the canvas is allowed
_moveRight_OffGrid(w) ==
    IF w.player.x + TileW <= CANVAS_WIDTH * Res THEN [w EXCEPT !.player.x = @ + TileW] ELSE w

_moveRight(w) ==
    IF w.player.x + TileW < CANVAS_WIDTH * Res THEN [w EXCEPT !.player.x = @ + TileW] ELSE w

_hasReachedTopRow(p) == onRow(p) = 0

\* mutant of _moveUp: the player stays on the top row after reaching the water
_moveUp_StaysOnTop(w) ==
    IF _hasReachedTopRow(w.player)
    THEN playerReachedTopRow(w, onColumn(w.player))
    ELSE [w EXCEPT !.player.y = @ - TileH]

\* mutant of _moveUp: reaching the water empties the walked-tile record
_moveUp_ClearsRecord(w) ==
    IF _hasReachedTopRow(w.player)
    THEN LET w1 == playerReachedTopRow(w, onColumn(w.player))
         IN  [w1 EXCEPT !.player = MovableItem_resetPosition(w1.player),
                        !.gp = _initializeWalkingArray(w1.gp)]
    ELSE [w EXCEPT !.player.y = @ - TileH]


_moveUp(w) ==
    IF _hasReachedTopRow(w.player)
    THEN LET w1 == playerReachedTopRow(w, onColumn(w.player))
         IN  [w1 EXCEPT !.player = MovableItem_resetPosition(w1.player)]
    ELSE [w EXCEPT !.player.y = @ - TileH]

_moveDown(w) ==
    IF w.player.y < w.player.startingYPosition THEN [w EXCEPT !.player.y = @ + TileH] ELSE w

\* Player.handleInput(input); input is "" for undefined
Player_handleInput(w, input) ==
    CASE input = "left" -> _moveLeft(w)
      [] input = "up" -> _moveUp(w)
      [] input = "right" -> _moveRight(w)
      [] input = "down" -> _moveDown(w)
      [] OTHER -> w

----------------------------------------------------------------------------
(* The listeners of app.js and the tick of engine.js *)

escapeKey == 27

KeyCodes == {27, 37, 38, 39, 40, 49, 50, 51}

\* allowedKeys[keyCode]; "" stands for undefined
allowedKeys(keyCode) ==
    CASE keyCode = 37 -> "left"
      [] keyCode = 38 -> "up"
      [] keyCode = 39 -> "right"
      [] keyCode = 40 -> "down"
      [] keyCode = 49 -> "one"
      [] keyCode = 50 -> "two"
      [] keyCode = 51 -> "three"
      [] OTHER -> ""

\* mutant of keyup: every key goes to the player
keyup_AlwaysPlayer(w, keyCode) ==
    LET w0 == Call([w EXCEPT !.calls = << >>], "keyup", keyCode)
        w1 == IF keyCode = escapeKey THEN [w0 EXCEPT !.gp.pauseGame = ~ @] ELSE w0
    IN  Player_handleInput(w1, allowedKeys(keyCode))

\* the keyup listener
keyup(w, keyCode) ==
    LET w0 == Call([w EXCEPT !.calls = << >>], "keyup", keyCode)
        w1 == IF keyCode = escapeKey THEN [w0 EXCEPT !.gp.pauseGame = ~ @] ELSE w0
    IN  IF w1.gp.pauseGame
        THEN GameProperties_handleInput(w1, allowedKeys(keyCode))
        ELSE Player_handleInput(w1, allowedKeys(keyCode))

\* mutant of mousedown: showing the info screen pauses the game
mousedown_Pauses(w, onInfoItem) ==
    LET w0 == Call([w EXCEPT !.calls = << >>], "mousedown", 0)
    IN  IF onInfoItem THEN [w0 EXCEPT !.gp.showInfo = ~ @, !.gp.pauseGame = TRUE] ELSE w0

\* the mousedown listener; onInfoItem is coordinatesOnInfoItem of the click
mousedown(w, onInfoItem) ==
    LET w0 == Call([w EXCEPT !.calls = << >>], "mousedown", 0)
    IN  IF onInfoItem THEN [w0 EXCEPT !.gp.showInfo = ~ @] ELSE w0

\* allEnemies.forEach(enemy.update(dt)); draws[i] holds the random row and speed
\* enemy i draws if it resets
UpdateEnemies(w, dt, draws) ==
    LET resets == { i \in DOMAIN w.allEnemies : Enemy_updateResets(w.gp, w.allEnemies[i]) }
        es == [ i \in DOMAIN w.allEnemies |->
                  Enemy_update(w.gp, w.allEnemies[i], dt, draws[i].row, draws[i].speed) ]
        logged[i \in 0 .. Len(w.allEnemies)] ==
            IF i = 0 THEN w.calls
            ELSE IF i \in resets
                 THEN logged[i - 1] \o << [fn |-> "Enemy.update", arg |-> i],
                                          [fn |-> "Enemy.reset", arg |-> i] >>
                 ELSE Append(logged[i - 1], [fn |-> "Enemy.update", arg |-> i])
    IN  [w EXCEPT !.allEnemies = es, !.calls = logged[Len(w.allEnemies)]]

\* the number of the tile an item is on: 5 * row + column
TileOf(item) == USABLE_GAME_COLUMNS * onRow(item) + onColumn(item)

\* mutant of updateEntities: collectibleManager.update() is inside the test of
\* pauseGame
updateEntities_PausedSkipsAll(w, dt, draws, gem) ==
    LET w0 == Call([w EXCEPT !.calls = << >>], "updateEntities", dt)
        w1 == GameProperties_update(Call(w0, "GameProperties.update", dt), dt)
    IN  IF ~ w1.gp.pauseGame
        THEN CollectibleManager_update(
                 Call(Player_update(Call(UpdateEnemies(w1, dt, draws), "Player.update", TileOf(w1.player)), gem),
                      "CollectibleManager.update", 0), gem)
        ELSE w1

\* updateEntities(dt) of engine.js; the history notes the tile the player is on
\* when Player.update() starts
updateEntities(w, dt, draws, gem) ==
    LET w0 == Call([w EXCEPT !.calls = << >>], "updateEntities", dt)
        w1 == GameProperties_update(Call(w0, "GameProperties.update", dt), dt)
        w2 == IF ~ w1.gp.pauseGame
              THEN Player_update(Call(UpdateEnemies(w1, dt, draws), "Player.update", TileOf(w1.player)), gem)
              ELSE w1
    IN  CollectibleManager_update(Call(w2, "CollectibleManager.update", 0), gem)

----------------------------------------------------------------------------
(* The state machine *)

\* the world of the current state
Now == World(gameProperties, player, allEnemies, collectibleManager, calls)

\* the current state is the world w
Is(w) ==
    /\ gameProperties = w.gp
    /\ player = w.player
    /\ allEnemies = w.allEnemies
    /\ collectibleManager = w.cm
    /\ calls = w.calls

\* the next state is the world w
Becomes(w) ==
    /\ gameProperties' = w.gp
    /\ player' = w.player
    /\ allEnemies' = w.allEnemies
    /\ collectibleManager' = w.cm
    /\ calls' = w.calls

WalkedCount(gp) ==
    Len(gp.walkedSuccess[1]) + Len(gp.walkedSuccess[2]) + Len(gp.walkedSuccess[3])

\* the counters are within the bounds of the model
Bounded(maxPoints, maxWalked) ==
    /\ gameProperties.currentGamePoints <= maxPoints
    /\ gameProperties.currentGamePoints >= - maxPoints
    /\ gameProperties.consecutiveSuccesses <= MaxSuccesses
    /\ WalkedCount(gameProperties) <= maxWalked

\* no popup is listed: the user waits for the popups to be purged
NoPopups == Len(gameProperties.showPoints) = 0

\* the random draws the enemies of w need in a tick: only a resetting enemy draws
EnemyDraws(w, rows, speeds) ==
    LET choices(i) ==
            IF Enemy_updateResets(w.gp, w.allEnemies[i]) /\ ~ w.gp.pauseGame
            THEN [row : rows, speed : speeds]
            ELSE { [row |-> 0, speed |-> 100] }
        upTo[n \in 0 .. Len(w.allEnemies)] ==
            IF n = 0 THEN { << >> }
            ELSE { Append(ds, d) : ds \in upTo[n - 1], d \in choices(n) }
    IN  upTo[Len(w.allEnemies)]

\* whether the tick of w with these enemy draws calls resetCollectible
NeedsGem(w, dt, draws) ==
    \/ w.gp.collectiblesOn /\ Len(w.cm.currentCollectibles) = 0
    \/ /\ ~ w.gp.pauseGame
       /\ Pickup(_checkEnemyCollisions(UpdateEnemies(w, dt, draws)))

\* a key is released: one of pausedCodes while the game is paused, one of
\* playCodes while it is not
KeyUp(pausedCodes, playCodes) ==
    \E keyCode \in (IF gameProperties.pauseGame THEN pausedCodes ELSE playCodes) :
        Becomes(keyup(Now, keyCode))

\* the mouse is pressed, on the info image or elsewhere
MouseDown ==
    \E onInfoItem \in BOOLEAN : Becomes(mousedown(Now, onInfoItem))

\* one pass of the loop of engine.js
Tick(dts, rows, speeds, gems) ==
    \E dt \in dts :
        \E draws \in EnemyDraws(Now, rows, speeds) :
            \E gem \in (IF NeedsGem(Now, dt, draws) THEN gems ELSE {GemDraw(1, 0, 0)}) :
                Becomes(updateEntities(Now, dt, draws, gem))

\* the state after the scripts of index.html have run, for enemies built
\* with the random rows and speeds of draws
Built(draws) ==
    /\ gameProperties = GameProperties
    /\ allEnemies = [ i \in 1 .. NumEnemies |-> Enemy(GameProperties, draws[i].row, draws[i].speed) ]
    /\ collectibleManager = [currentCollectibles |-> << >>]
    /\ player = Player
    /\ calls = << >>

----------------------------------------------------------------------------
(* Spec: the game played on the start column.  Ticks are one second apart, *)
(* the enemy speed drawn is 360 (an enemy is on the start column every     *)
(* second tick), the collectible drawn is the orange gem on row 1 of the   *)
(* start column.  Paused, the user toggles modes; playing, the user moves  *)
(* up, and releases a key only when no popup is listed.                    *)

GameDts == {Res}

GameSpeeds == {360}

GameGems == { g \in AllGemDraws : g.col = 2 /\ g.row = 1 /\ g.sel = 2 }

GamePausedCodes == {27, 49, 50, 51}

GamePlayCodes == {27, 38}

Init ==
    \E draws \in [1 .. NumEnemies -> [row : EnemyRows, speed : GameSpeeds]] : Built(draws)

GameKey == Bounded(MaxPoints, MaxWalked) /\ NoPopups /\ KeyUp(GamePausedCodes, GamePlayCodes)

GameTick == Bounded(MaxPoints, MaxWalked) /\ Tick(GameDts, EnemyRows, GameSpeeds, GameGems)

Next == GameKey \/ GameTick

Spec == Init /\ [][Next]_vars

----------------------------------------------------------------------------
(* SpecTiles: coloured-tile mode, all four arrow keys.  The state after    *)
(* construction is followed by the '1' key (coloured-tile mode on) and the *)
(* escape key (play).  The user steps onto the stone tiles in the order of *)
(* Route, and otherwise walks on grass and on recorded tiles.  The game    *)
(* goes on until points are banked by a collision, lost in the water or    *)
(* won with the bonus, after which the loop ticks once more.               *)

\* the stone tiles (5 * row + column) in the order the user first visits them
Route == << 12, 7, 2, 3, 8, 13, 14, 9, 4, 1, 6, 11, 10, 5, 0 >>

TilesCodes == {37, 38, 39, 40}

\* the world after construction
BuiltWorld(draws) ==
    World(GameProperties, Player,
          [ i \in 1 .. NumEnemies |-> Enemy(GameProperties, draws[i].row, draws[i].speed) ],
          [currentCollectibles |-> << >>], << >>)

\* the player of w is on grass, on a recorded tile or on the next tile of Route
OnRoute(w) ==
    IF onRow(w.player) >= USABLE_GAME_ROWS
    THEN TRUE
    ELSE IF NotWalked(w.gp, onRow(w.player), onColumn(w.player))
         THEN TileOf(w.player) = Route[WalkedCount(w.gp) + 1]
         ELSE TRUE

TilesBounded ==
    /\ gameProperties.currentGamePoints <= MaxTilesPoints
    /\ TILE_POINTS * WalkedCount(gameProperties) - gameProperties.currentGamePoints <= MaxTilesDebt
    /\ gameProperties.bestGamePoints <= MaxTilesBest

TilesInit ==
    \E draws \in [1 .. NumEnemies -> [row : EnemyRows, speed : GameSpeeds]] :
        Is(keyup(keyup(BuiltWorld(draws), 49), escapeKey))

TilesKey ==
    /\ TilesBounded
    /\ \E keyCode \in TilesCodes :
          /\ OnRoute(keyup(Now, keyCode))
          /\ Becomes(keyup(Now, keyCode))

\* the last handler awarded the bonus for the fifteen tiles
BonusAwarded ==
    \E k \in DOMAIN calls : calls[k] = [fn |-> "addPoints", arg |-> ALL_TILES_POINTS]

\* the loop ticks once more after the bonus
TilesTick ==
    /\ IF TilesBounded THEN TRUE ELSE BonusAwarded
    /\ Tick(GameDts, EnemyRows, GameSpeeds, GameGems)

TilesNext == TilesKey \/ TilesTick

SpecTiles == TilesInit /\ [][TilesNext]_vars

----------------------------------------------------------------------------
(* SpecGems: collectibles mode, with or without coloured-tile mode.  The   *)
(* state after construction is followed by the '2' key (collectibles mode  *)
(* on), possibly the '1' key, and the escape key.  The player moves up and *)
(* down the start column; the collectibles of all three kinds are put on   *)
(* any of the three rows, on the start column or on the column to its      *)
(* left.  The game goes on until points are banked                         *)
(* by a collision or lost in the water.                                    *)

GemsGems == { g \in AllGemDraws : g.col \in 1 .. 2 }

GemsCodes == {38, 40}

GemsBounded ==
    /\ gameProperties.currentGamePoints <= MaxGemsPoints
    /\ gameProperties.currentGamePoints >= 0
    /\ gameProperties.bestGamePoints <= MaxTilesBest
    /\ WalkedCount(gameProperties) <= MaxWalked

GemsInit ==
    \E draws \in [1 .. NumEnemies -> [row : EnemyRows, speed : GameSpeeds]] :
        \E coloured \in BOOLEAN :
            Is(keyup(keyup(IF coloured THEN keyup(BuiltWorld(draws), 49) ELSE BuiltWorld(draws),
                           50),
                     escapeKey))

GemsKey == GemsBounded /\ NoPopups /\ KeyUp({}, GemsCodes)

GemsTick == GemsBounded /\ Tick(GameDts, EnemyRows, GameSpeeds, GemsGems)

GemsNext == GemsKey \/ GemsTick

SpecGems == GemsInit /\ [][GemsNext]_vars

----------------------------------------------------------------------------
(* SpecEnemies: the enemies.  The player stays on its start tile; paused,  *)
(* the user toggles alternate-directions mode.  Ticks are two seconds      *)
(* apart and the speeds drawn are 100, 250 and 399.                        *)

EnemiesDts == {2 * Res}

EnemiesSpeeds == {100, 250, 399}

EnemiesPausedCodes == {27, 51}

EnemiesPlayCodes == {27}

EnemiesInit ==
    \E draws \in [1 .. NumEnemies -> [row : EnemyRows, speed : EnemiesSpeeds]] : Built(draws)

EnemiesKey == KeyUp(EnemiesPausedCodes, EnemiesPlayCodes)

EnemiesTick == Tick(EnemiesDts, EnemyRows, EnemiesSpeeds, GameGems)

EnemiesNext == EnemiesKey \/ EnemiesTick

SpecEnemies == EnemiesInit /\ [][EnemiesNext]_vars

----------------------------------------------------------------------------
(* SpecCollide: collidingWith as a function.  The game is in play with     *)
(* collectibles mode on; the enemies are anywhere around the middle        *)
(* column, the player is on a stone tile of the three middle columns and   *)
(* the collectible on one of these tiles.  The step calls collidingWith on *)
(* two of the items.                                                       *)

\* the x of the enemies, in pixels
CollideXs == {140, 175, 200, 225, 257, 290}

CollideColumns == 1 .. 3

\* the items of the world w, in one sequence
Items(w) == w.allEnemies \o << w.player >> \o w.cm.currentCollectibles

\* the x of the enemies in units: the pixels of CollideXs and, where the units
\* can hold them, the x at which an enemy's visible edge is on the visible edge
\* of a player on one of CollideColumns (the enemy's visible part is 7.5 to 93.5
\* pixels right of its x, the player's 35 to 66)
CollideUnits ==
    { x * Res : x \in CollideXs }
        \cup { u \in 0 .. CANVAS_WIDTH * Res :
                  \E column \in CollideColumns :
                      \/ 2 * u + 187 * Res = 2 * column * TileW + 70 * Res
                      \/ 2 * u + 15 * Res = 2 * column * TileW + 132 * Res }

CollideInit ==
    \E places \in [1 .. NumEnemies -> [row : EnemyRows, x : CollideUnits]] :
        \E column \in CollideColumns, row \in EnemyRows :
            \E gem \in { g \in AllGemDraws : g.sel = 1 /\ g.col \in CollideColumns } :
                Is(resetCollectible(
                       World([GameProperties EXCEPT !.pauseGame = FALSE, !.collectiblesOn = TRUE],
                             [Player EXCEPT !.x = column * TileW,
                                            !.y = row * TileH + PLAYER_VERTICAL_BUFFER * Res],
                             [ i \in 1 .. NumEnemies |->
                                 [Enemy(GameProperties, places[i].row, 100)
                                    EXCEPT !.x = places[i].x] ],
                             [currentCollectibles |-> << >>], << >>),
                       gem))

\* a.collidingWith(b) is called for two items a and b; its result is the argument logged
Collide ==
    \E a \in DOMAIN Items(Now), b \in DOMAIN Items(Now) :
        /\ calls' = << [fn |-> "collidingWith",
                        arg |-> IF collidingWith(Items(Now)[a], Items(Now)[b]) THEN 1 ELSE 0] >>
        /\ UNCHANGED <<gameProperties, player, allEnemies, collectibleManager>>

\* the three methods collidingWith() calls on its argument
Methods == { "onRow", "visibleLeft", "visibleRight" }

\* an object with the fields of item and, of the three methods, only those of has
WithMethods(item, has) ==
    [ x |-> item.x, y |-> item.y, width |-> item.width, rowAdjust |-> item.rowAdjust, has |-> has ]

\* mutant of collidingWithObject: the TypeError of a missing method is not caught
collidingWithObject_NoCatch(this, o) ==
    IF "onRow" \notin o.has THEN "throws"
    ELSE IF onRow(this) # onRow(o) THEN "undefined"
    ELSE IF "visibleLeft" \notin o.has THEN "throws"
    ELSE IF visibleLeft(o) < visibleRight(this) /\ visibleLeft(o) > visibleLeft(this) THEN "true"
    ELSE IF "visibleRight" \notin o.has THEN "throws"
    ELSE IF visibleRight(o) < visibleRight(this) /\ visibleRight(o) > visibleLeft(this) THEN "true"
    ELSE "false"

\* this.collidingWith(o) for any object o, in the order in which JavaScript
\* evaluates it: calling a missing method throws a TypeError, which the catch
\* block logs and turns into false ("caught"); different rows fall out of the
\* if and return undefined; || and && evaluate their right side only when needed
collidingWithObject(this, o) ==
    IF "onRow" \notin o.has THEN "caught"
    ELSE IF onRow(this) # onRow(o) THEN "undefined"
    ELSE IF "visibleLeft" \notin o.has THEN "caught"
    ELSE IF visibleLeft(o) < visibleRight(this) /\ visibleLeft(o) > visibleLeft(this) THEN "true"
    ELSE IF "visibleRight" \notin o.has THEN "caught"
    ELSE IF visibleRight(o) < visibleRight(this) /\ visibleRight(o) > visibleLeft(this) THEN "true"
    ELSE "false"

\* the world after this.collidingWith(o): the call and its result (1 true,
\* 0 false, -1 undefined) are noted, and the console.log of the catch block
collisionQuery(w, this, o) ==
    LET result == collidingWithObject(this, o)
        w0 == [w EXCEPT !.calls = << >>]
    IN  CASE result = "true" -> Call(w0, "collidingWith", 1)
          [] result = "false" -> Call(w0, "collidingWith", 0)
          [] result = "undefined" -> Call(w0, "collidingWith", -1)
          [] result = "caught" -> Call(Call(w0, "console.log", 0), "collidingWith", 0)
          [] OTHER -> Call(w0, "TypeError", 0)

\* the objects queried: one without methods, one with onRow() only, one
\* without visibleRight()
ObjectKinds == { {}, {"onRow"}, {"onRow", "visibleLeft"} }

\* a.collidingWith(o) is called, as the first query on the world built, for an
\* item a and an object o that has the fields of an item b and some of the three
\* methods
CollideObject ==
    /\ \A k \in DOMAIN calls : calls[k].fn # "collidingWith"
    /\ \E a \in DOMAIN Items(Now), b \in DOMAIN Items(Now), has \in ObjectKinds :
           Becomes(collisionQuery(Now, Items(Now)[a], WithMethods(Items(Now)[b], has)))

CollideNext == Collide \/ CollideObject

SpecCollide == CollideInit /\ [][CollideNext]_vars

----------------------------------------------------------------------------
(* SpecInput: the listeners.  Every key of the keyup listener is released, *)
(* paused or playing, and the mouse is pressed on the info image or beside *)
(* it.  The loop ticks while the game is paused only: the enemies, built   *)
(* on row 1, stay where the constructor put them.                          *)

InputRows == {1}

InputPlayCodes == {27, 37, 38, 39, 40}

InputInit ==
    \E draws \in [1 .. NumEnemies -> [row : InputRows, speed : GameSpeeds]] : Built(draws)

InputKey == Bounded(MaxPoints, MaxWalked) /\ KeyUp(KeyCodes, InputPlayCodes)

InputMouse == MouseDown

InputTick == gameProperties.pauseGame /\ Tick(GameDts, EnemyRows, GameSpeeds, GameGems)

InputNext == InputKey \/ InputMouse \/ InputTick

SpecInput == InputInit /\ [][InputNext]_vars

----------------------------------------------------------------------------
(* SpecPopups: the popups of coloured-tile mode under ticks that are less  *)
(* than a second apart.  The state after construction is followed by the   *)
(* '1' key and the escape key; the player moves up the start column.  The  *)
(* same time delta may arrive tick after tick.                             *)

\* the positive time deltas below one second, in units of 1/Res second
PopupsDts == 1 .. Res - 1

PopupsCodes == {38}

PopupsInit ==
    \E draws \in [1 .. NumEnemies -> [row : EnemyRows, speed : GameSpeeds]] :
        Is(keyup(keyup(BuiltWorld(draws), 49), escapeKey))

PopupsKey ==
    /\ Bounded(MaxPoints, MaxWalked)
    /\ Len(gameProperties.showPoints) <= MaxPopups
    /\ KeyUp({}, PopupsCodes)

PopupsTick == Tick(PopupsDts, EnemyRows, GameSpeeds, GameGems)

PopupsNext == PopupsKey \/ PopupsTick

\* a step of the loop: the handler that made it is a tick
PopupsTicked == Len(calls') > 0 /\ calls'[1].fn = "updateEntities"

SpecPopups == PopupsInit /\ [][PopupsNext]_vars

----------------------------------------------------------------------------
(* Vocabulary of the claims *)

\* the handler whose calls are cs called fn
Called(cs, fn) == \E i \in DOMAIN cs : cs[i].fn = fn

\* the handler whose calls are cs is the keyup listener for keyCode
IsKeyUp(cs, keyCode) == Len(cs) > 0 /\ cs[1] = [fn |-> "keyup", arg |-> keyCode]

\* the handler whose calls are cs is a tick
IsTick(cs) == Len(cs) > 0 /\ cs[1].fn = "updateEntities"

AtStart(p) == p.x = PLAYER_START_X * Res /\ p.y = PLAYER_START_Y * Res

WalkedEmpty(gp) == WalkedCount(gp) = 0

----------------------------------------------------------------------------
(* Claims on the scoring engine, checked under Spec *)

\* C1: in every step whose handler calls GameProperties.reset() (an enemy
\* collision or any of the three mode toggles), bestGamePoints afterwards is
\* max(bestGamePoints before, currentGamePoints before), and currentGamePoints
\* and consecutiveSuccesses are both 0.
C1_ResetBanksBest ==
    [][ Called(calls', "reset") =>
          /\ gameProperties'.bestGamePoints =
                Max(gameProperties.bestGamePoints, gameProperties.currentGamePoints)
          /\ gameProperties'.currentGamePoints = 0
          /\ gameProperties'.consecutiveSuccesses = 0 ]_vars

\* C1 witness: a reset has just run and a score above 10 is banked
C1_Witness ==
    /\ Called(calls, "reset")
    /\ gameProperties.bestGamePoints > 10
    /\ gameProperties.currentGamePoints = 0

\* C2: bestGamePoints never decreases from one state to the next, and it changes
\* only in a step whose handler calls reset().
C2_BestMonotone ==
    [][ /\ gameProperties'.bestGamePoints >= gameProperties.bestGamePoints
        /\ gameProperties'.bestGamePoints # gameProperties.bestGamePoints
              => Called(calls', "reset") ]_vars

\* C2 witness: points were added (a popup is listed, the score is not 0) after a
\* best score was banked, and the best score is still the banked one
C2_Witness ==
    /\ Called(calls, "addPoints")
    /\ ~ Called(calls, "reset")
    /\ gameProperties.bestGamePoints > 0
    /\ gameProperties.currentGamePoints > gameProperties.bestGamePoints

\* C3: with coloured-tile mode and collectibles mode both off, a tick in which an
\* enemy collides with the player sets consecutiveSuccesses to 0 and leaves
\* currentGamePoints and bestGamePoints as they were.
C3_CollisionWithoutPoints ==
    [][ ( /\ ~ pointsTrackingModesOn(gameProperties)
          /\ Called(calls', "playerCollidedWithEnemy") ) =>
          /\ gameProperties'.consecutiveSuccesses = 0
          /\ gameProperties'.currentGamePoints = gameProperties.currentGamePoints
          /\ gameProperties'.bestGamePoints = gameProperties.bestGamePoints ]_vars

\* C3 witness: a collision with both modes off, after a best score was banked
C3_Witness ==
    /\ ~ pointsTrackingModesOn(gameProperties)
    /\ Called(calls, "playerCollidedWithEnemy")
    /\ gameProperties.bestGamePoints > 0

\* the row and column of the tile numbered t
TileRow(t) == t \div USABLE_GAME_COLUMNS

TileColumn(t) == t % USABLE_GAME_COLUMNS

\* the tile the player was on when the Player.update() of the calls cs started
UpdateTile(cs) == cs[CHOOSE i \in DOMAIN cs : cs[i].fn = "Player.update"].arg

\* C4: in every combination of the mode flags, at the end of a Player.update() in
\* which an enemy collided with the player, the player is at its start position,
\* currentGamePoints and consecutiveSuccesses are 0 and the walked-tile record is
\* empty: neither a collectible nor an unvisited stone tile under the player at
\* the moment of the collision is scored.
C4_CollisionResets ==
    Called(calls, "playerCollidedWithEnemy") =>
        /\ AtStart(player)
        /\ gameProperties.currentGamePoints = 0
        /\ gameProperties.consecutiveSuccesses = 0
        /\ WalkedEmpty(gameProperties)
        /\ ~ Called(calls, "addPoints")

\* C4 witness: a collision with all three modes on, while the collectible lay on
\* the (stone) tile the player was hit on
C4_Witness ==
    /\ Called(calls, "playerCollidedWithEnemy")
    /\ gameProperties.colouredTileModeOn
    /\ gameProperties.collectiblesOn
    /\ gameProperties.alternateDirectionsOn
    /\ Len(collectibleManager.currentCollectibles) = 1
    /\ TileOf(collectibleManager.currentCollectibles[1]) = UpdateTile(calls)

\* C5: when the player moves up from row 0 while coloured-tile mode or collectibles
\* mode is on, currentGamePoints decreases by exactly 30, consecutiveSuccesses is
\* unchanged and the player is back at its start position.
C5_WaterCostsThirty ==
    [][ ( /\ IsKeyUp(calls', 38)
          /\ ~ gameProperties.pauseGame
          /\ onRow(player) = 0
          /\ pointsTrackingModesOn(gameProperties) ) =>
          /\ gameProperties'.currentGamePoints = gameProperties.currentGamePoints - 30
          /\ gameProperties'.consecutiveSuccesses = gameProperties.consecutiveSuccesses
          /\ AtStart(player') ]_vars

\* C5 witness: the water was reached with collectibles mode on and coloured-tile
\* mode off
C5_Witness ==
    /\ Called(calls, "playerReachedTopRow")
    /\ gameProperties.collectiblesOn
    /\ ~ gameProperties.colouredTileModeOn
    /\ gameProperties.currentGamePoints < 0

\* C6: when the player moves up from row 0 while neither coloured-tile nor
\* collectibles mode is on, consecutiveSuccesses increases by exactly 1,
\* currentGamePoints and bestGamePoints are unchanged and the player is back at
\* its start position; an enemy collision sets consecutiveSuccesses to 0.
C6_WaterCountsSuccess ==
    [][ /\ ( /\ IsKeyUp(calls', 38)
             /\ ~ gameProperties.pauseGame
             /\ onRow(player) = 0
             /\ ~ pointsTrackingModesOn(gameProperties) ) =>
             /\ gameProperties'.consecutiveSuccesses = gameProperties.consecutiveSuccesses + 1
             /\ gameProperties'.currentGamePoints = gameProperties.currentGamePoints
             /\ gameProperties'.bestGamePoints = gameProperties.bestGamePoints
             /\ AtStart(player')
        /\ Called(calls', "playerCollidedWithEnemy") =>
             gameProperties'.consecutiveSuccesses = 0 ]_vars

\* C6 witness: the water was reached a second time in a row without a mode on
C6_Witness ==
    /\ Called(calls, "playerReachedTopRow")
    /\ ~ pointsTrackingModesOn(gameProperties)
    /\ gameProperties.consecutiveSuccesses = 2
    /\ AtStart(player)

\* C10: currentCollectibles never holds more than one element; it holds exactly
\* one after a CollectibleManager.update() (every tick ends with one) while
\* collectiblesOn is true; it is empty whenever collectiblesOn is false.
C10_OneCollectible ==
    /\ Len(collectibleManager.currentCollectibles) <= 1
    /\ (gameProperties.collectiblesOn /\ IsTick(calls))
          => Len(collectibleManager.currentCollectibles) = 1
    /\ ~ gameProperties.collectiblesOn
          => Len(collectibleManager.currentCollectibles) = 0

\* C10 witness: the player picked the collectible up in a tick, and the
\* CollectibleManager.update() that ended the tick put out the next one
C10_Witness ==
    /\ gameProperties.collectiblesOn
    /\ IsTick(calls)
    /\ Called(calls, "playerCollectedItem")
    /\ Called(calls, "resetCollectible")
    /\ Len(collectibleManager.currentCollectibles) = 1

\* the worlds w can be in after an 'up' key and the tick that follows it
UpThenTick(w) ==
    LET w1 == keyup(w, 38)
    IN  UNION { UNION { { updateEntities(w1, dt, draws, gem) :
                            gem \in (IF NeedsGem(w1, dt, draws) THEN GameGems ELSE {GemDraw(1, 0, 0)}) } :
                        draws \in EnemyDraws(w1, EnemyRows, GameSpeeds) } :
                dt \in GameDts }

\* the worlds of ws whose last tick had no enemy collision
NoCollision(ws) == { w \in ws : ~ Called(w.calls, "playerCollidedWithEnemy") }

\* the worlds w can be in after three 'up' keys, each followed by a tick, none
\* of the ticks with an enemy collision
ThreeUps(w) ==
    UNION { UNION { NoCollision(UpThenTick(w2)) : w2 \in NoCollision(UpThenTick(w1)) } :
            w1 \in NoCollision(UpThenTick(w)) }

\* C7 (as stated): with coloured-tile mode on, the player at its start tile, an
\* empty walked-tile record and no enemy collision, three 'up' moves, each
\* followed by a tick, add exactly 30 to currentGamePoints and leave exactly 3
\* entries in the walked-tile record.
C7_ThreeUpsScoreThirty ==
    ( /\ gameProperties.colouredTileModeOn
      /\ ~ gameProperties.pauseGame
      /\ AtStart(player)
      /\ WalkedEmpty(gameProperties) ) =>
        \A w \in ThreeUps(Now) :
            /\ w.gp.currentGamePoints = gameProperties.currentGamePoints + 30
            /\ WalkedCount(w.gp) = 3

\* C7 (amended): with coloured-tile mode on, collectibles mode off, the player at
\* its start tile, an empty walked-tile record and no enemy collision, three 'up'
\* moves, each followed by a tick, add exactly 20 to currentGamePoints and leave
\* exactly 2 entries in the walked-tile record, the tiles of rows 2 and 1 of the
\* start column: the first move ends on the grass of row 3, which is not scored.
C7_ThreeUpsScoreTwenty ==
    ( /\ gameProperties.colouredTileModeOn
      /\ ~ gameProperties.collectiblesOn
      /\ ~ gameProperties.pauseGame
      /\ AtStart(player)
      /\ WalkedEmpty(gameProperties) ) =>
        \A w \in ThreeUps(Now) :
            /\ w.gp.currentGamePoints = gameProperties.currentGamePoints + 20
            /\ w.gp.walkedSuccess = << << >>, <<2>>, <<2>> >>
            /\ onRow(w.player) = 1

\* C7 witness: the third tick of the scenario has scored the tile of row 1 of the
\* start column, after the tile of row 2 and nothing else
C7_Witness ==
    /\ gameProperties.colouredTileModeOn
    /\ IsTick(calls)
    /\ Called(calls, "addPoints")
    /\ UpdateTile(calls) = 7
    /\ gameProperties.walkedSuccess = << << >>, <<2>>, <<2>> >>
    /\ gameProperties.currentGamePoints = 20
    /\ gameProperties.bestGamePoints = 0

\* the number of 200-point awards among the calls cs
Bonuses(cs) ==
    Cardinality({ i \in DOMAIN cs : cs[i] = [fn |-> "addPoints", arg |-> ALL_TILES_POINTS] })

\* the step is a tick that records the last of the 15 stone tiles
Completes(gp, cs) ==
    /\ gp.colouredTileModeOn
    /\ WalkedCount(gp) = USABLE_GAME_ROWS * USABLE_GAME_COLUMNS - 1
    /\ IsTick(cs)
    /\ Called(cs, "Player.update")
    /\ ~ Called(cs, "reset")
    /\ UpdateTile(cs) < USABLE_GAME_ROWS * USABLE_GAME_COLUMNS
    /\ NotWalked(gp, TileRow(UpdateTile(cs)), TileColumn(UpdateTile(cs)))

\* C8: with coloured-tile mode on and no reset in between, the update that
\* records the 15th distinct stone tile awards the 200-point bonus exactly once
\* (after the 10 points of the tile) and leaves the walked-tile record empty; no
\* other step awards the bonus.
C8_BonusOncePerCompletion ==
    [][ /\ Completes(gameProperties, calls') =>
            /\ Bonuses(calls') = 1
            /\ gameProperties'.currentGamePoints =
                   gameProperties.currentGamePoints + TILE_POINTS + ALL_TILES_POINTS
            /\ WalkedEmpty(gameProperties')
        /\ ~ Completes(gameProperties, calls') => Bonuses(calls') = 0 ]_vars

\* C8 witness: the bonus was awarded on top of the points of the 15 tiles
C8_Witness ==
    /\ Bonuses(calls) = 1
    /\ WalkedEmpty(gameProperties)
    /\ gameProperties.currentGamePoints = 15 * TILE_POINTS + ALL_TILES_POINTS

\* C9 (as stated): with coloured-tile mode on, a move onto a stone tile records
\* the tile, also when the next move comes before the next tick: when the player
\* has just moved onto a stone tile and a second 'up' key follows, the tile it
\* leaves is in the walked-tile record.
C9_EveryMoveRecords ==
    [][ ( /\ gameProperties.colouredTileModeOn
          /\ ~ gameProperties.pauseGame
          /\ calls = << [fn |-> "keyup", arg |-> 38] >>
          /\ onRow(player) < USABLE_GAME_ROWS
          /\ IsKeyUp(calls', 38) ) =>
          ~ NotWalked(gameProperties', onRow(player), onColumn(player)) ]_vars

----------------------------------------------------------------------------
(* Claims on the collectibles, checked under SpecGems *)

\* the position in the calls cs of the first call of fn
CallIndex(cs, fn) == CHOOSE i \in DOMAIN cs : cs[i].fn = fn /\ \A j \in 1 .. i - 1 : cs[j].fn # fn

\* the sum of the points of the addPoints calls of cs after position from
RECURSIVE PointsAfter(_, _)
PointsAfter(cs, from) ==
    IF from >= Len(cs) THEN 0
    ELSE (IF cs[from + 1].fn = "addPoints" THEN cs[from + 1].arg ELSE 0)
         + PointsAfter(cs, from + 1)

SameTile(a, b) == onRow(a) = onRow(b) /\ onColumn(a) = onColumn(b)

\* C29: in a Player.update() without an enemy collision, the player picks up the
\* active collectible if and only if the player is on the row and on the column
\* of the collectible; without an active collectible nothing is picked up.
C29_PickupOnSameTileOnly ==
    [][ (Called(calls', "Player.update") /\ ~ Called(calls', "playerCollidedWithEnemy")) =>
          IF Len(collectibleManager.currentCollectibles) = 1
          THEN Called(calls', "playerCollectedItem")
                   <=> SameTile(player, collectibleManager.currentCollectibles[1])
          ELSE ~ Called(calls', "playerCollectedItem") ]_vars

\* C29 witness: a Player.update() without collision left the collectible alone
\* that lies on the player's row, on the neighbouring column
C29_Witness ==
    /\ Called(calls, "Player.update")
    /\ ~ Called(calls, "playerCollidedWithEnemy")
    /\ ~ Called(calls, "playerCollectedItem")
    /\ Len(collectibleManager.currentCollectibles) = 1
    /\ onRow(collectibleManager.currentCollectibles[1]) = onRow(player)
    /\ onColumn(collectibleManager.currentCollectibles[1]) = onColumn(player) - 1

----------------------------------------------------------------------------
(* Claims on the enemies, checked under SpecEnemies *)

\* the colour the documentation of setSpriteBySpeed gives to a speed
BandColour(speed) ==
    IF speed \in 100 .. 149 THEN "blue"
    ELSE IF speed \in 150 .. 199 THEN "purple"
    ELSE IF speed \in 200 .. 249 THEN "red"
    ELSE IF speed \in 250 .. 299 THEN "yellow"
    ELSE IF speed \in 300 .. 399 THEN "green"
    ELSE "none"

\* the enemy is on a stone row, with a speed of 100 to 399 and the colour of its band
WellFormedEnemy(enemy) ==
    /\ onRow(enemy) \in {0, 1, 2}
    /\ enemy.speed \in 100 .. 399
    /\ enemy.sprite.colour = BandColour(enemy.speed)

\* C12: every enemy, after construction and after every reset(), is on row 0, 1
\* or 2, has an integer speed in [100, 399] and the sprite colour of its speed
\* band: 100-149 blue, 150-199 purple, 200-249 red, 250-299 yellow, 300-399
\* green.  Every enemy of every reachable state is so, and so is what new Enemy()
\* and reset() make of it: for every row with the speeds of EnemiesSpeeds, and,
\* of an enemy that has just been constructed or reset, for every speed
\* Math.random() can give on row 1, the row whose sprite depends on the mode.
C12_EnemyWellFormed ==
    \A i \in DOMAIN allEnemies :
        /\ WellFormedEnemy(allEnemies[i])
        /\ \A row \in EnemyRows, speed \in EnemiesSpeeds :
              LET fresh == Enemy_reset(gameProperties, allEnemies[i], row, speed)
              IN  /\ WellFormedEnemy(fresh)
                  /\ fresh.speed = speed
                  /\ onRow(fresh) = row
                  /\ WellFormedEnemy(Enemy(gameProperties, row, speed))
        /\ ( calls = << >> \/ \E k \in DOMAIN calls : calls[k] = [fn |-> "Enemy.reset", arg |-> i] ) =>
              \A speed \in AllSpeeds :
                  LET fresh == Enemy_reset(gameProperties, allEnemies[i], 1, speed)
                  IN  /\ WellFormedEnemy(fresh)
                      /\ fresh.speed = speed
                      /\ fresh.sprite.colour = Enemy(gameProperties, 1, speed).sprite.colour

\* C12 witness: an enemy was reset in the last tick, to row 1 in
\* alternate-directions mode and to the speed 250 at the low end of the yellow band
C12_Witness ==
    /\ Called(calls, "Enemy.reset")
    /\ gameProperties.alternateDirectionsOn
    /\ \E i \in DOMAIN allEnemies :
          /\ [fn |-> "Enemy.reset", arg |-> i] \in { calls[k] : k \in DOMAIN calls }
          /\ onRow(allEnemies[i]) = 1
          /\ allEnemies[i].speed = 250
          /\ allEnemies[i].sprite = [colour |-> "yellow", reversed |-> TRUE]

\* the x from which update() moves the enemy: its x, or the x reset() gives it
\* when update() resets it first
MovedFrom(gp, enemy, row, speed) ==
    IF (IF gp.alternateDirectionsOn /\ onRow(enemy) = 1
        THEN enemy.x < (- HORIZONTAL_TILE_WIDTH - 2) * Res
        ELSE enemy.x > (CANVAS_WIDTH + 2) * Res)
    THEN Enemy_reset(gp, enemy, row, speed).x
    ELSE enemy.x

\* update(dt) moves the enemy right-to-left, whatever reset() draws
MovesLeft(gp, enemy) ==
    \A dt \in EnemiesDts, row \in EnemyRows, speed \in EnemiesSpeeds :
        LET moved == Enemy_update(gp, enemy, dt, row, speed)
        IN  moved.x = MovedFrom(gp, enemy, row, speed) - moved.speed * dt

\* update(dt) moves the enemy left-to-right, whatever reset() draws
MovesRight(gp, enemy) ==
    \A dt \in EnemiesDts, row \in EnemyRows, speed \in EnemiesSpeeds :
        LET moved == Enemy_update(gp, enemy, dt, row, speed)
        IN  moved.x = MovedFrom(gp, enemy, row, speed) + moved.speed * dt

\* C15: when alternate-directions mode is toggled on, every enemy on row 1 is
\* reversed from then on: isReversedEnemy() is true, its next update moves it
\* right-to-left, and its sprite is the '-reversed' variant of the colour of its
\* speed; the enemies on rows 0 and 2 keep their direction and their sprite.  At
\* all times an enemy has the reversed sprite exactly when it is reversed.
C15_ToggleReversesRowOne ==
    [][ /\ ( /\ gameProperties.pauseGame
             /\ ~ gameProperties.alternateDirectionsOn
             /\ IsKeyUp(calls', 51) ) =>
             \A i \in DOMAIN allEnemies :
                 IF onRow(allEnemies[i]) = 1
                 THEN /\ isReversedEnemy(gameProperties', allEnemies'[i])
                      /\ allEnemies'[i] =
                            [allEnemies[i] EXCEPT !.sprite =
                                [colour |-> BandColour(allEnemies[i].speed), reversed |-> TRUE]]
                      /\ MovesLeft(gameProperties', allEnemies'[i])
                 ELSE /\ ~ isReversedEnemy(gameProperties', allEnemies'[i])
                      /\ allEnemies'[i] = allEnemies[i]
                      /\ ~ allEnemies'[i].sprite.reversed
                      /\ MovesRight(gameProperties', allEnemies'[i])
        /\ \A i \in DOMAIN allEnemies' :
               allEnemies'[i].sprite.reversed <=> isReversedEnemy(gameProperties', allEnemies'[i]) ]_vars

\* C15 witness: the mode was toggled on while an enemy was half way across row 1
C15_Witness ==
    /\ IsKeyUp(calls, 51)
    /\ gameProperties.alternateDirectionsOn
    /\ \E i \in DOMAIN allEnemies :
          /\ onRow(allEnemies[i]) = 1
          /\ allEnemies[i].x > 0
          /\ allEnemies[i].x < CANVAS_WIDTH * Res
          /\ allEnemies[i].sprite.reversed

\* the handler whose calls are cs called reset() on enemy i
ResetLogged(cs, i) == \E k \in DOMAIN cs : cs[k] = [fn |-> "Enemy.reset", arg |-> i]

\* C16: in every Enemy.update(dt) a reversed enemy is reset if and only if its x
\* is below -103 when the call starts, and a non-reversed enemy if and only if
\* its x is above the canvas width + 2 (507); without a reset the call leaves
\* row and speed unchanged and changes x by exactly speed * dt in the enemy's
\* direction (down for a reversed enemy, up for the others).
C16_UpdateResetsBeyondBoundary ==
    [][ ( IsTick(calls') /\ ~ gameProperties.pauseGame ) =>
          \A i \in DOMAIN allEnemies :
              LET before == allEnemies[i]
                  after == allEnemies'[i]
                  dt == calls'[1].arg
                  reversed == gameProperties.alternateDirectionsOn /\ onRow(before) = 1
                  beyond == IF reversed THEN before.x < (- 103) * Res
                                        ELSE before.x > 507 * Res
              IN  /\ ResetLogged(calls', i) <=> beyond
                  /\ ~ beyond =>
                        /\ onRow(after) = onRow(before)
                        /\ after.speed = before.speed
                        /\ after.y = before.y
                        /\ after.sprite = before.sprite
                        /\ after.x = IF reversed THEN before.x - before.speed * dt
                                                 ELSE before.x + before.speed * dt
                  /\ beyond =>
                        \/ after.x = (- 103) * Res + after.speed * dt
                        \/ after.x = (- 103) * Res - after.speed * dt
                        \/ after.x = 507 * Res + after.speed * dt
                        \/ after.x = 507 * Res - after.speed * dt ]_vars

\* C16 witness: the last tick moved a reversed enemy of row 1 beyond the left
\* boundary without resetting it; the next update resets it
C16_Witness ==
    /\ IsTick(calls)
    /\ gameProperties.alternateDirectionsOn
    /\ ~ gameProperties.pauseGame
    /\ \E i \in DOMAIN allEnemies :
          /\ ~ ResetLogged(calls, i)
          /\ onRow(allEnemies[i]) = 1
          /\ allEnemies[i].x < (- 103) * Res

\* C17: an enemy's x is decreased by speed * dt only if alternate-directions
\* mode is on and the enemy is on row 1 at the moment of the decrease; an enemy
\* on row 0 or 2 is never moved right-to-left.  The x that update() decreases is
\* the enemy's x when the call starts or, after a reset, the boundary reset() put
\* it on; the row at that moment is the row the call leaves it on.
C17_OnlyRowOneMovesLeft ==
    [][ ( IsTick(calls') /\ ~ gameProperties.pauseGame ) =>
          \A i \in DOMAIN allEnemies :
              LET after == allEnemies'[i]
                  dt == calls'[1].arg
                  from == IF ResetLogged(calls', i)
                          THEN IF gameProperties.alternateDirectionsOn /\ onRow(after) = 1
                               THEN 507 * Res ELSE (- 103) * Res
                          ELSE allEnemies[i].x
              IN  after.x = from - after.speed * dt =>
                      gameProperties.alternateDirectionsOn /\ onRow(after) = 1 ]_vars

\* C18: immediately after Enemy.reset() the enemy's x is the right boundary
\* (507) if the enemy is reversed on its new row, and the left boundary (-103)
\* otherwise.  It is so for what reset() makes of every enemy of every reachable
\* state, for every row and speed it can draw.
C18_ResetStartsAtBoundary ==
    \A i \in DOMAIN allEnemies :
        \A row \in EnemyRows, speed \in EnemiesSpeeds :
            LET fresh == Enemy_reset(gameProperties, allEnemies[i], row, speed)
            IN  /\ onRow(fresh) = row
                /\ fresh.x = IF gameProperties.alternateDirectionsOn /\ row = 1
                             THEN 507 * Res
                             ELSE (- 103) * Res

\* C18 witness: in alternate-directions mode the last tick reset an enemy onto
\* row 1, and moved it on from the right boundary
C18_Witness ==
    /\ IsTick(calls)
    /\ gameProperties.alternateDirectionsOn
    /\ \E i \in DOMAIN allEnemies :
          /\ ResetLogged(calls, i)
          /\ onRow(allEnemies[i]) = 1
          /\ allEnemies[i].x = 507 * Res - allEnemies[i].speed * calls[1].arg

----------------------------------------------------------------------------
(* Claims on collidingWith, checked under SpecCollide *)

\* C13 (as stated): collidingWith is symmetric: for every two items a and b
\* (enemy, player or collectible), a.collidingWith(b) is truthy exactly when
\* b.collidingWith(a) is truthy.
C13_CollidingSymmetric ==
    \A a \in DOMAIN Items(Now), b \in DOMAIN Items(Now) :
        collidingWith(Items(Now)[a], Items(Now)[b]) <=> collidingWith(Items(Now)[b], Items(Now)[a])

\* twice the left and the right end of the visible part of an item, from the
\* widths of the constructors: an enemy shows 86 pixels, a collectible 95 and the
\* player 31, centred on the middle of the 101 pixels of its tile
VisibleEnds(item) ==
    CASE item.width = 86 * Res -> << 2 * item.x + 15 * Res, 2 * item.x + 187 * Res >>
      [] item.width = 95 * Res -> << 2 * item.x + 6 * Res, 2 * item.x + 196 * Res >>
      [] item.width = 31 * Res -> << 2 * item.x + 70 * Res, 2 * item.x + 132 * Res >>

\* the visible parts of a and b have a stretch of positive length in common
Overlap(a, b) ==
    VisibleEnds(a)[1] < VisibleEnds(b)[2] /\ VisibleEnds(b)[1] < VisibleEnds(a)[2]

\* the visible parts of a and b meet at one point
Touch(a, b) ==
    VisibleEnds(a)[2] = VisibleEnds(b)[1] \/ VisibleEnds(b)[2] = VisibleEnds(a)[1]

\* the enemies and the collectibles of the current state
WideItems == allEnemies \o collectibleManager.currentCollectibles

\* C27: for the two collision checks the game performs, enemy.collidingWith(player)
\* and collectible.collidingWith(player), the result is truthy if and only if
\* both items are on the same row and their visible horizontal intervals overlap
\* with positive length; intervals that only touch at an edge give no collision.
C27_CollisionIsOverlapOnRow ==
    \A k \in DOMAIN WideItems :
        /\ collidingWith(WideItems[k], player) <=>
               ( onRow(WideItems[k]) = onRow(player) /\ Overlap(WideItems[k], player) )
        /\ Touch(WideItems[k], player) => ~ collidingWith(WideItems[k], player)

\* C27 witness: an enemy on the player's row touches the player's visible edge,
\* and the query made was answered with no collision
C27_Witness ==
    /\ calls = << [fn |-> "collidingWith", arg |-> 0] >>
    /\ \E i \in DOMAIN allEnemies :
          /\ onRow(allEnemies[i]) = onRow(player)
          /\ Touch(allEnemies[i], player)
    /\ \A k \in DOMAIN WideItems : ~ collidingWith(WideItems[k], player)

----------------------------------------------------------------------------
(* Claims on the mode toggles and the tick, checked under Spec *)

\* the three mode flags of gp
ModeFlags(gp) == << gp.colouredTileModeOn, gp.collectiblesOn, gp.alternateDirectionsOn >>

\* C14: after each of the three mode toggles (keys '1', '2', '3' on the pause
\* screen), on or off, exactly the toggled flag has flipped, currentGamePoints
\* and consecutiveSuccesses are 0, the walked-tile record is empty and the player
\* is at its start position.
C14_ToggleResets ==
    [][ \A k \in 1 .. 3 :
          (gameProperties.pauseGame /\ IsKeyUp(calls', 48 + k)) =>
             /\ ModeFlags(gameProperties') = [ModeFlags(gameProperties) EXCEPT ![k] = ~ @]
             /\ gameProperties'.pauseGame
             /\ gameProperties'.currentGamePoints = 0
             /\ gameProperties'.consecutiveSuccesses = 0
             /\ WalkedEmpty(gameProperties')
             /\ AtStart(player') ]_vars

\* C14 witness: coloured-tile mode was toggled off in a game paused with 20
\* points, which the toggle banked
C14_Witness ==
    /\ IsKeyUp(calls, 49)
    /\ gameProperties.pauseGame
    /\ ~ gameProperties.colouredTileModeOn
    /\ gameProperties.bestGamePoints = 20
    /\ AtStart(player)

----------------------------------------------------------------------------
(* Claims on the player's moves, checked under SpecTiles *)

\* the x of the five columns and the y of the five rows, in pixels
GridXs == { 0, 101, 202, 303, 404 }

GridYs == { 48, 131, 214, 297, 380 }

\* the player stands on a tile of the grid
InGrid(p) ==
    /\ \E gx \in GridXs : p.x = gx * Res /\ onColumn(p) * 101 = gx
    /\ \E gy \in GridYs : p.y = gy * Res /\ onRow(p) * 83 + 48 = gy

\* the player of the current state after the arrow key keyCode is released
Moved(keyCode) == keyup(Now, keyCode).player

\* what the three blocked moves and the moves to the left, to the right and down
\* make of the player, in a game that is not paused
SideAndDownMoves ==
    /\ Moved(37) = IF player.x = 0 THEN player
                   ELSE [player EXCEPT !.x = @ - 101 * Res]
    /\ Moved(39) = IF player.x = 404 * Res THEN player
                   ELSE [player EXCEPT !.x = @ + 101 * Res]
    /\ Moved(40) = IF player.y = 380 * Res THEN player
                   ELSE [player EXCEPT !.y = @ + 83 * Res]

\* C19 as stated: the player is always on the grid (x in {0,101,202,303,404},
\* y in {48,131,214,297,380}); a 'left' at column 0, a 'right' at column 4 and a
\* 'down' on the starting row leave the position unchanged; every other move,
\* an 'up' on any row included, changes the position by exactly one tile in the
\* requested direction.
C19_EveryMoveOneTile ==
    /\ InGrid(player)
    /\ ~ gameProperties.pauseGame =>
          /\ \A keyCode \in TilesCodes : InGrid(Moved(keyCode))
          /\ SideAndDownMoves
          /\ Moved(38) = [player EXCEPT !.y = @ - 83 * Res]

\* C19 amended: the player is always on the grid; the three blocked moves leave
\* the position unchanged; an 'up' on row 0 puts the player back on its starting
\* tile; every other move changes the position by exactly one tile in the
\* requested direction.
C19_MovesOneTileOrHome ==
    /\ InGrid(player)
    /\ ~ gameProperties.pauseGame =>
          /\ \A keyCode \in TilesCodes : InGrid(Moved(keyCode))
          /\ SideAndDownMoves
          /\ Moved(38) = IF player.y = 48 * Res
                         THEN [player EXCEPT !.x = 202 * Res, !.y = 380 * Res]
                         ELSE [player EXCEPT !.y = @ - 83 * Res]

\* C19 witness: a 'right' has brought the player to the corner of row 0 and
\* column 4, where 'right' is blocked and 'up' reaches the water
C19_Witness ==
    /\ IsKeyUp(calls, 39)
    /\ ~ gameProperties.pauseGame
    /\ onRow(player) = 0
    /\ onColumn(player) = 4

----------------------------------------------------------------------------
(* Claims on the tick of the loop driver, checked under Spec *)

\* the names of the update() calls of the handler whose calls are cs, in the
\* order in which it made them
UpdateCalls(cs) ==
    LET updates == SelectSeq(cs, LAMBDA c : c.fn \in { "GameProperties.update", "Enemy.update",
                                                      "Player.update", "CollectibleManager.update" })
    IN  [ k \in DOMAIN updates |-> updates[k].fn ]

\* the update() calls of a tick that updates the popups, then every enemy, then
\* the player, then the CollectibleManager
FullOrder ==
    << "GameProperties.update" >> \o [ i \in DOMAIN allEnemies |-> "Enemy.update" ]
        \o << "Player.update", "CollectibleManager.update" >>

\* the enemies were updated in the order of allEnemies
EnemiesInOrder(cs) ==
    SelectSeq(cs, LAMBDA c : c.fn = "Enemy.update") =
        [ i \in DOMAIN allEnemies |-> [fn |-> "Enemy.update", arg |-> i] ]

\* what a tick makes of the current state, for every dt and every collectible it
\* can draw
TickResults ==
    { updateEntities(Now, dt, draws, gem) :
          dt \in GameDts, draws \in EnemyDraws(Now, EnemyRows, GameSpeeds), gem \in GameGems }

\* C20 as stated: while the game is paused a tick calls update on no enemy, not
\* on the player and not on the CollectibleManager, and leaves their state
\* unchanged; the popup-decay update runs on every tick, paused or not; when the
\* game is not paused the order within a tick is all enemies, then the player,
\* then the CollectibleManager.
C20_PausedTickUpdatesPopupsOnly ==
    /\ IsTick(calls) =>
          /\ calls[2] = [fn |-> "GameProperties.update", arg |-> calls[1].arg]
          /\ EnemiesInOrder(calls) \/ gameProperties.pauseGame
          /\ UpdateCalls(calls) = IF gameProperties.pauseGame
                                  THEN << "GameProperties.update" >>
                                  ELSE FullOrder
    /\ gameProperties.pauseGame =>
          \A t \in TickResults :
              /\ t.allEnemies = allEnemies
              /\ t.player.x = player.x /\ t.player.y = player.y
              /\ t.cm = collectibleManager

\* C20 amended: while the game is paused a tick calls update on no enemy and not
\* on the player, and leaves the enemies and the player's position unchanged;
\* the popup-decay update and CollectibleManager.update() run on every tick,
\* paused or not, so that a paused tick creates the collectible when collectibles
\* mode is on and there is none; when the game is not paused the order within a
\* tick is the popup decay, all enemies, then the player, then the
\* CollectibleManager.
C20_PausedTickSkipsEnemiesAndPlayer ==
    /\ IsTick(calls) =>
          /\ calls[2] = [fn |-> "GameProperties.update", arg |-> calls[1].arg]
          /\ EnemiesInOrder(calls) \/ gameProperties.pauseGame
          /\ UpdateCalls(calls) = IF gameProperties.pauseGame
                                  THEN << "GameProperties.update", "CollectibleManager.update" >>
                                  ELSE FullOrder
    /\ gameProperties.pauseGame =>
          \A t \in TickResults :
              /\ t.allEnemies = allEnemies
              /\ t.player.x = player.x /\ t.player.y = player.y
              /\ Len(t.cm.currentCollectibles) =
                     IF gameProperties.collectiblesOn THEN 1
                     ELSE Len(collectibleManager.currentCollectibles)
              /\ Len(collectibleManager.currentCollectibles) = 1 => t.cm = collectibleManager

\* C20 witness: a tick of the paused game has created the collectible
C20_Witness ==
    /\ IsTick(calls)
    /\ gameProperties.pauseGame
    /\ Called(calls, "resetCollectible")
    /\ Len(collectibleManager.currentCollectibles) = 1

----------------------------------------------------------------------------
(* Claims on the modes, checked under Spec *)

\* C24: whenever coloured-tile mode is off the walked-tile record is empty, all
\* three rows of walkedSuccess; and the '1' key that turns the mode on again,
\* released on the pause screen, leaves it empty, so that no tile visited before
\* a toggle is still recorded.
C24_RecordEmptyWhenModeOff ==
    /\ ~ gameProperties.colouredTileModeOn =>
          \A row \in 1 .. 3 : Len(gameProperties.walkedSuccess[row]) = 0
    /\ Len(gameProperties.walkedSuccess) = 3
    /\ gameProperties.pauseGame =>
          \A row \in 1 .. 3 : Len(keyup(Now, 49).gp.walkedSuccess[row]) = 0

\* C24 witness: the '1' key has turned the mode off in a game that had scored
\* one tile, whose 10 points the toggle has banked
C24_Witness ==
    /\ IsKeyUp(calls, 49)
    /\ ~ gameProperties.colouredTileModeOn
    /\ gameProperties.bestGamePoints = TILE_POINTS

----------------------------------------------------------------------------
(* Claims on the created collectible, checked under SpecGems *)

\* the gem of a point value
GemOf(points) ==
    CASE points = 25 -> "images/gem-blue.png"
      [] points = 50 -> "images/gem-orange.png"
      [] points = 75 -> "images/gem-green.png"
      [] OTHER -> "none"

\* a collectible worth 25, 50 or 75 with the gem of its value, on a stone tile
WellFormedCollectible(collectible) ==
    /\ collectible.points \in {25, 50, 75}
    /\ collectible.sprite = GemOf(collectible.points)
    /\ onColumn(collectible) \in 0 .. 4
    /\ onRow(collectible) \in {0, 1, 2}
    /\ collectible.x = onColumn(collectible) * 101 * Res

\* C25: every collectible created by resetCollectible() has a point value in
\* {25, 50, 75} with the matching gem sprite (blue 25, orange 50, green 75) and
\* lies on a stone tile: its onColumn() is in 0..4 and its onRow() in {0, 1, 2}.
\* The collectible of every reachable state is so, and so is the one
\* resetCollectible() creates for every selection, column and row it can draw,
\* on the column and the row drawn.
C25_CollectibleOnStoneTile ==
    /\ \A k \in DOMAIN collectibleManager.currentCollectibles :
           WellFormedCollectible(collectibleManager.currentCollectibles[k])
    /\ \A draw \in AllGemDraws :
           LET made == resetCollectible(Now, draw).cm.currentCollectibles
           IN  /\ Len(made) = 1
               /\ WellFormedCollectible(made[1])
               /\ onColumn(made[1]) = draw.col
               /\ onRow(made[1]) = draw.row
               /\ made[1].points = 25 * draw.sel

\* C25 witness: after a pickup resetCollectible() has put a green gem on row 0
C25_Witness ==
    /\ Called(calls, "playerCollectedItem")
    /\ Len(collectibleManager.currentCollectibles) = 1
    /\ collectibleManager.currentCollectibles[1].points = 75
    /\ collectibleManager.currentCollectibles[1].sprite = "images/gem-green.png"
    /\ onRow(collectibleManager.currentCollectibles[1]) = 0

----------------------------------------------------------------------------
(* Claims on the score and the success counter, checked under Spec *)

\* C30: at the end of every unpaused tick no enemy collides with the player: a
\* player that collided when Player.update() started is back on its start tile,
\* on the grass, and every enemy is on a stone row.
C30_NoCollisionAfterTick ==
    (IsTick(calls) /\ Called(calls, "Player.update")) =>
        /\ ~ EnemyCollision(Now)
        /\ \A i \in DOMAIN allEnemies : onRow(allEnemies[i]) \in EnemyRows
        /\ Called(calls, "playerCollidedWithEnemy") =>
               /\ player.x = player.startingXPosition
               /\ player.y = player.startingYPosition
               /\ onRow(player) = 4

\* C30 witness: the tick found an enemy on the player, which had walked to the
\* stone rows with points; the player is back on its start tile and the enemy is
\* still above the start column
C30_Witness ==
    /\ IsTick(calls)
    /\ Called(calls, "playerCollidedWithEnemy")
    /\ gameProperties.bestGamePoints > 0
    /\ onRow(player) = 4
    /\ \E i \in DOMAIN allEnemies :
           /\ visibleLeft(allEnemies[i]) < visibleRight(player)
           /\ visibleRight(allEnemies[i]) > visibleLeft(player)


\* C28: the points-tracking state and the success counter are mutually
\* exclusive in every reachable state: if neither coloured-tile nor collectibles
\* mode is on then currentGamePoints = 0, and if either of them is on then
\* consecutiveSuccesses = 0.
C28_PointsOrSuccesses ==
    IF gameProperties.colouredTileModeOn \/ gameProperties.collectiblesOn
    THEN gameProperties.consecutiveSuccesses = 0
    ELSE gameProperties.currentGamePoints = 0

\* C28 witness: a game that banked points in a points mode has been switched
\* to no mode, and the player has reached the water once
C28_Witness ==
    /\ ~ gameProperties.colouredTileModeOn
    /\ ~ gameProperties.collectiblesOn
    /\ gameProperties.bestGamePoints > 0
    /\ gameProperties.consecutiveSuccesses = 1
    /\ gameProperties.currentGamePoints = 0

----------------------------------------------------------------------------
(* Claims on malformed collision queries, checked under SpecCollide *)

----------------------------------------------------------------------------
(* Claims on the listeners, checked under SpecInput *)

\* the world of the current state after the key keyCode is released
Released(keyCode) == keyup(Now, keyCode)

\* the world of the current state with the call history of the keyup listener
\* for keyCode and nothing else changed
OnlyLogged(keyCode) == [Now EXCEPT !.calls = << [fn |-> "keyup", arg |-> keyCode] >>]

\* the character selection after 'left' (by = -1) or 'right' (by = 1) on the
\* pause screen, which offers five characters
Selected(by) ==
    IF gameProperties.characterSelection + by \in 0 .. 4
    THEN gameProperties.characterSelection + by
    ELSE gameProperties.characterSelection

\* C21: the game starts paused with all three modes off; a mode flag changes
\* only while the game is paused (by no key of a game in play and by no tick); a
\* direction key moves the player only while the game is not paused, and while
\* it is paused 'left' and 'right' change only the character selection and 'up'
\* and 'down' change nothing; the Escape key flips pauseGame and changes nothing
\* else.
C21_PauseGatesInput ==
    /\ calls = << >> =>
          /\ gameProperties.pauseGame
          /\ ModeFlags(gameProperties) = << FALSE, FALSE, FALSE >>
    /\ \A keyCode \in KeyCodes :
          /\ ModeFlags(Released(keyCode).gp) # ModeFlags(gameProperties) =>
                 gameProperties.pauseGame /\ Released(keyCode).gp.pauseGame
          /\ ( keyCode \in 37 .. 40 /\ Released(keyCode).player # player ) =>
                 ~ gameProperties.pauseGame
    /\ \A t \in TickResults : ModeFlags(t.gp) = ModeFlags(gameProperties)
    /\ gameProperties.pauseGame =>
          /\ Released(37) = [OnlyLogged(37) EXCEPT !.gp.characterSelection = Selected(-1)]
          /\ Released(39) = [OnlyLogged(39) EXCEPT !.gp.characterSelection = Selected(1)]
          /\ Released(38) = OnlyLogged(38)
          /\ Released(40) = OnlyLogged(40)
    /\ Released(27) = [OnlyLogged(27) EXCEPT !.gp.pauseGame = ~ gameProperties.pauseGame]

\* C21 witness: the Escape key has paused a game that was played in
\* collectibles mode, with the player away from its start tile
C21_Witness ==
    /\ IsKeyUp(calls, 27)
    /\ gameProperties.pauseGame
    /\ gameProperties.collectiblesOn
    /\ ~ AtStart(player)

----------------------------------------------------------------------------
(* Claims on the popups, checked under SpecPopups *)

\* C22: every popup appended by addPoints is eventually purged from the
\* showPoints list under ticks with a positive time delta below one second.
\* What the tick does to the list depends on the list and on the time delta only,
\* so no such tick leaves a list that holds a popup exactly as it found it: the
\* same tick, arriving again and again, would keep that popup for ever.
C22_PopupsPurged ==
    [][ (PopupsTicked /\ Len(gameProperties.showPoints) > 0) =>
            gameProperties'.showPoints # gameProperties.showPoints ]_vars

\* the world of the current state after a click on the info image
Clicked == mousedown(Now, TRUE)

\* C26: toggling the info screen (a click on the info image) changes only
\* showInfo: pauseGame, the mode flags, the scores and the positions of player,
\* enemies and collectible are unchanged, and a click elsewhere changes nothing;
\* key input keeps being dispatched exactly as if the info screen were not
\* shown: every key does after the click what it does without it.
C26_InfoTogglesShowInfoOnly ==
    /\ Clicked = [Now EXCEPT !.gp.showInfo = ~ gameProperties.showInfo,
                             !.calls = << [fn |-> "mousedown", arg |-> 0] >>]
    /\ mousedown(Now, FALSE) = [Now EXCEPT !.calls = << [fn |-> "mousedown", arg |-> 0] >>]
    /\ \A keyCode \in KeyCodes :
           keyup(Clicked, keyCode) =
               [Released(keyCode) EXCEPT !.gp.showInfo = ~ gameProperties.showInfo]

\* C26 witness: with the info screen shown, an 'up' has moved the player of a
\* game in play off its start tile
C26_Witness ==
    /\ IsKeyUp(calls, 38)
    /\ gameProperties.showInfo
    /\ ~ gameProperties.pauseGame
    /\ player.y = PLAYER_START_Y * Res - TileH

----------------------------------------------------------------------------
(* Claims on the sprites of the enemies, checked under SpecEnemies *)

\* the sprites of the enemies es agree with the directions under gp
SpritesAgree(gp, es) ==
    \A i \in DOMAIN es : es[i].sprite.reversed <=> isReversedEnemy(gp, es[i])

\* C31: in every reachable state an enemy's sprite is the '-reversed' variant
\* if and only if alternate-directions mode is on and the enemy is on row 1; a
\* reset of any enemy onto any row and a toggle of the mode, on or off, keep it.
C31_ReversedSpriteIffReversed ==
    /\ SpritesAgree(gameProperties, allEnemies)
    /\ \A i \in DOMAIN allEnemies, row \in EnemyRows, speed \in EnemiesSpeeds :
           SpritesAgree(gameProperties,
               [allEnemies EXCEPT ![i] = Enemy_reset(gameProperties, @, row, speed)])
    /\ LET toggled == toggleAlternateDirectionsMode(Now)
       IN  SpritesAgree(toggled.gp, toggled.allEnemies)

\* C31 witness: with the mode on, the last tick reset an enemy onto row 1, where
\* it starts from the right with the reversed sprite
C31_Witness ==
    /\ gameProperties.alternateDirectionsOn
    /\ \E i \in DOMAIN allEnemies :
          /\ ResetLogged(calls, i)
          /\ onRow(allEnemies[i]) = 1
          /\ allEnemies[i].sprite.reversed
          /\ allEnemies[i].x > 0


----------------------------------------------------------------------------
(* Further claims on the coloured tiles, checked under SpecTiles *)

\* the handler whose calls are cs added tile-walk points
TilePointsAdded(cs) ==
    \E k \in DOMAIN cs :
        cs[k].fn = "addPoints" /\ cs[k].arg \in {TILE_POINTS, ALL_TILES_POINTS}

\* C32: with coloured-tile mode on, a Player.update() that follows a
\* Player.update() with no player move, no reset and no mode toggle in between
\* awards no tile-walk points and leaves the walked-tile record unchanged.
C32_NoAwardWithoutMove ==
    [][ ( /\ gameProperties.colouredTileModeOn
          /\ Called(calls, "Player.update")
          /\ Called(calls', "Player.update")
          /\ ~ Called(calls', "reset") ) =>
            /\ ~ TilePointsAdded(calls')
            /\ gameProperties'.walkedSuccess = gameProperties.walkedSuccess ]_vars


\* the columns of a row of the record are pairwise distinct columns of the grid
DistinctColumns(columns) ==
    /\ Len(columns) <= USABLE_GAME_COLUMNS
    /\ \A k \in DOMAIN columns : columns[k] \in 0 .. USABLE_GAME_COLUMNS - 1
    /\ \A k, l \in DOMAIN columns : k # l => columns[k] # columns[l]

\* C33: in every reachable state the walked-tile record has exactly 3 rows, each
\* row holds pairwise distinct columns from 0..4, and the record never holds all
\* 15 tiles; the tile that _checkPlayerLocation() passes to
\* playerWalkedOnStoneTile, after the enemy check of an update that starts in
\* this state, has its row in {0,1,2} and its column in 0..4.
C33_RecordWellFormed ==
    /\ DOMAIN gameProperties.walkedSuccess = 1 .. USABLE_GAME_ROWS
    /\ \A r \in 1 .. USABLE_GAME_ROWS : DistinctColumns(gameProperties.walkedSuccess[r])
    /\ WalkedCount(gameProperties) < USABLE_GAME_ROWS * USABLE_GAME_COLUMNS
    /\ LET w == _checkEnemyCollisions(Now)
       IN  onRow(w.player) < 3 =>
               /\ onRow(w.player) \in 0 .. USABLE_GAME_ROWS - 1
               /\ onColumn(w.player) \in 0 .. USABLE_GAME_COLUMNS - 1

\* C33 witness: fourteen tiles are recorded, two rows are full, and the last
\* update scored the tile at the left end of row 1
C33_Witness ==
    /\ WalkedCount(gameProperties) = 14
    /\ Len(gameProperties.walkedSuccess[2]) = 5
    /\ Len(gameProperties.walkedSuccess[3]) = 5
    /\ Called(calls, "Player.update")
    /\ TilePointsAdded(calls)
    /\ onRow(player) = 1
    /\ onColumn(player) = 0


----------------------------------------------------------------------------
(* Claims on the record across crossings, checked under Spec *)

\* the arrow keys
ArrowCodes == {37, 38, 39, 40}

\* C34: reaching the goal row in coloured-tile mode does not clear the
\* walked-tile record: a move up from row 0 costs 30 points, puts the player
\* home and leaves the record as it was, as every other move does; and the tile
\* check of an update with the player on a recorded tile awards nothing and
\* leaves the record as it was, in the first crossing and in those after it.
C34_GoalKeepsRecord ==
    (gameProperties.colouredTileModeOn /\ ~ gameProperties.pauseGame) =>
        /\ \A keyCode \in ArrowCodes :
               keyup(Now, keyCode).gp.walkedSuccess = gameProperties.walkedSuccess
        /\ onRow(player) = 0 =>
               LET w == keyup(Now, 38)
               IN  /\ Called(w.calls, "playerReachedTopRow")
                   /\ ~ Called(w.calls, "reset")
                   /\ w.gp.currentGamePoints = gameProperties.currentGamePoints + WATER_POINTS
                   /\ w.player = MovableItem_resetPosition(player)
        /\ (onRow(player) < 3 /\ ~ NotWalked(gameProperties, onRow(player), onColumn(player))) =>
               LET w == _checkPlayerLocation([Now EXCEPT !.calls = << >>])
               IN  /\ ~ TilePointsAdded(w.calls)
                   /\ w.gp = gameProperties

\* C34 witness: after two tiles and the water, the player is on the first of the
\* two tiles again, and the update of the last tick has awarded nothing
C34_Witness ==
    /\ gameProperties.colouredTileModeOn
    /\ WalkedCount(gameProperties) = 2
    /\ gameProperties.currentGamePoints = 2 * TILE_POINTS + WATER_POINTS
    /\ Called(calls, "Player.update")
    /\ ~ TilePointsAdded(calls)
    /\ onRow(player) = 2
    /\ ~ NotWalked(gameProperties, onRow(player), onColumn(player))


\* C35: bestGamePoints is never negative in any reachable state, although
\* currentGamePoints can be negative when a reset banks it: the reset that the
\* next collision or mode toggle brings leaves a negative score out of
\* bestGamePoints.
C35_BestNeverNegative ==
    /\ gameProperties.bestGamePoints >= 0
    /\ LET banked == reset(Now).gp
       IN  /\ banked.bestGamePoints >= 0
           /\ gameProperties.currentGamePoints < 0 =>
                  banked.bestGamePoints = gameProperties.bestGamePoints

\* C35 witness: the score is below zero after the water, nothing has been
\* banked yet, and the player has walked into an enemy: the update of the next
\* tick resets the game with a negative score
C35_Witness ==
    /\ ~ gameProperties.pauseGame
    /\ gameProperties.currentGamePoints < 0
    /\ gameProperties.bestGamePoints = 0
    /\ EnemyCollision(Now)
    /\ reset(Now).gp.bestGamePoints = 0


----------------------------------------------------------------------------
(* Claims on two toggles in a row, checked under SpecEnemies *)

\* the file name of an enemy sprite, cut into the pieces that indexOf(),
\* replace() and split('.') of reverseEnemyImage() tell apart
SpriteText(sprite) ==
    << "images/enemy-bug-", sprite.colour >>
        \o (IF sprite.reversed THEN << "-reversed" >> ELSE << >>)
        \o << ".", "png" >>

\* the positions of piece in text
Places(text, piece) == { k \in DOMAIN text : text[k] = piece }

\* the least position of a non-empty set of positions
First(places) == CHOOSE k \in places : \A l \in places : k <= l

\* what reverseEnemyImage() makes of the file name text: the first '-reversed'
\* is taken out, or else '-reversed.' is put between the first two parts that
\* split('.') gives, and the parts after them are dropped
ReverseText(text) ==
    IF Places(text, "-reversed") # {}
    THEN LET k == First(Places(text, "-reversed"))
         IN  SubSeq(text, 1, k - 1) \o SubSeq(text, k + 1, Len(text))
    ELSE LET dots == Places(text, ".")
             d == First(dots)
             rest == dots \ {d}
             e == IF rest = {} THEN Len(text) + 1 ELSE First(rest)
         IN  SubSeq(text, 1, d - 1) \o << "-reversed", "." >> \o SubSeq(text, d + 1, e - 1)

\* the enemies of w are those of v but for the sprites on row 1
SameButRowOneSprites(v, w) ==
    \A i \in DOMAIN v.allEnemies :
        /\ w.allEnemies[i].x = v.allEnemies[i].x
        /\ w.allEnemies[i].y = v.allEnemies[i].y
        /\ w.allEnemies[i].speed = v.allEnemies[i].speed
        /\ onRow(v.allEnemies[i]) # 1 => w.allEnemies[i] = v.allEnemies[i]
        /\ onRow(v.allEnemies[i]) = 1 =>
               SpriteText(w.allEnemies[i].sprite) = ReverseText(SpriteText(v.allEnemies[i].sprite))

\* C36: toggling alternate-directions mode twice in a row (the '3' key, twice,
\* in a paused game) restores alternateDirectionsOn and every enemy's sprite
\* and direction; neither toggle changes an enemy's x, row or speed, nor the
\* sprite of an enemy on row 0 or 2, and the file name of a sprite on row 1 is
\* what reverseEnemyImage() makes of the one before.
C36_TwoTogglesRestore ==
    gameProperties.pauseGame =>
        LET once == keyup(Now, 51)
            twice == keyup(once, 51)
        IN  /\ once.gp.alternateDirectionsOn = ~ gameProperties.alternateDirectionsOn
            /\ twice.gp.alternateDirectionsOn = gameProperties.alternateDirectionsOn
            /\ twice.allEnemies = allEnemies
            /\ \A i \in DOMAIN allEnemies :
                   /\ isReversedEnemy(twice.gp, twice.allEnemies[i])
                          <=> isReversedEnemy(gameProperties, allEnemies[i])
                   /\ ReverseText(ReverseText(SpriteText(allEnemies[i].sprite)))
                          = SpriteText(allEnemies[i].sprite)
            /\ SameButRowOneSprites(Now, once)
            /\ SameButRowOneSprites(once, twice)

\* C36 witness: the '3' key has turned the mode off again, with an enemy half way
\* across row 1 that has its plain sprite back
C36_Witness ==
    /\ IsKeyUp(calls, 51)
    /\ gameProperties.pauseGame
    /\ ~ gameProperties.alternateDirectionsOn
    /\ \E i \in DOMAIN allEnemies :
          /\ onRow(allEnemies[i]) = 1
          /\ allEnemies[i].x > 0
          /\ allEnemies[i].x < CANVAS_WIDTH * Res
          /\ SpriteText(allEnemies[i].sprite)
                 = << "images/enemy-bug-", BandColour(allEnemies[i].speed), ".", "png" >>


----------------------------------------------------------------------------
(* Claims on the wrapping of the enemies, checked under SpecEnemies *)

\* how far the enemy is from the boundary beyond which update() resets it, in
\* its direction of travel; below zero the next update resets it
ToBoundary(gp, enemy) ==
    IF isReversedEnemy(gp, enemy)
    THEN enemy.x - _leftMostXPosition
    ELSE _rightMostXPosition - enemy.x

\* the stretch between the two boundaries
Stretch == _rightMostXPosition - _leftMostXPosition

\* the least speed setSpeed() gives
MinSpeed == 100

\* the last two handlers were ticks of a game in play
TwoTicks == IsTick(calls) /\ IsTick(calls') /\ ~ gameProperties.pauseGame

=============================================================================
